---------------------------- MODULE Spec2Model ----------------------------
(***************************************************************************)
(* Model of the backtest engine of trade-bot (src/backtest.py) and of the  *)
(* grid strategy it drives (src/strategy.py).                              *)
(*                                                                         *)
(* Numbers.  Every quantity of the engine is a Python float (IEEE-754      *)
(* binary, round-to-nearest-even after every single operation).  A float   *)
(* is modelled as a pair <<m, e>> of integers standing for m * 2^e, kept   *)
(* canonical (m odd, or <<0, 0>>), with a mantissa of MantBits bits        *)
(* instead of the 53 of binary64; exponents are unbounded (no overflow or  *)
(* underflow for the magnitudes of a backtest).  FAdd, FSub, FMul, FDiv    *)
(* compute the exact result and round it once, as the hardware does.       *)
(***************************************************************************)
EXTENDS Integers, Sequences, FiniteSets, TLC

\* ------------------------------------------------------------------
\* Bounds of the model
\* ------------------------------------------------------------------
\* Mantissa width of the modelled binary floating point (binary64 has 53).
MantBits == 8

\* Largest number of rows of the data frame handed to run.
MaxBars == 3

\* Largest number of rows of a data frame that is handed to run twice.
MaxRerunBars == 2

\* Largest number of rows of a data frame after the rows the trend filter
\* needs before it has a value.
MaxTrendBars == 2

\* ------------------------------------------------------------------
\* Binary floating point
\* ------------------------------------------------------------------
Abs(n) == IF n < 0 THEN -n ELSE n

Sgn(n) == IF n < 0 THEN -1 ELSE IF n > 0 THEN 1 ELSE 0

RECURSIVE BitLen(_)
BitLen(n) == IF n = 0 THEN 0 ELSE 1 + BitLen(n \div 2)

\* Canonical form of m * 2^e: the mantissa is odd, zero is <<0, 0>>.
RECURSIVE Norm(_, _)
Norm(m, e) ==
    IF m = 0 THEN <<0, 0>>
    ELSE IF m % 2 = 0 THEN Norm(m \div 2, e + 1)
    ELSE <<m, e>>

\* m * 2^e rounded to MantBits significant bits, ties to even.
Round(m, e) ==
    LET n == Abs(m)
        L == BitLen(n)
    IN  IF L <= MantBits THEN Norm(m, e)
        ELSE LET k    == L - MantBits
                 q    == n \div (2 ^ k)
                 r    == n % (2 ^ k)
                 half == 2 ^ (k - 1)
                 up   == r > half \/ (r = half /\ q % 2 = 1)
                 q1   == IF up THEN q + 1 ELSE q
             IN  Norm(Sgn(m) * q1, e + k)

Zero == <<0, 0>>

\* A number the source writes as a literal that binary64 holds exactly
\* (1.0, 2.0, 100.0, 10000.0): it enters an operation unrounded.
Exact(n) == Norm(n, 0)

One == Exact(1)

Two == Exact(2)

FNeg(a) == <<-a[1], a[2]>>

\* a * b
FMul(a, b) == Round(a[1] * b[1], a[2] + b[2])

\* a + b.  The exact sum is formed when the exponents are close; otherwise
\* the operand of smaller exponent is below a quarter of the last place of
\* the other and the sum rounds to the other operand.
FAdd(a, b) ==
    IF a[1] = 0 THEN b
    ELSE IF b[1] = 0 THEN a
    ELSE LET hi == IF a[2] >= b[2] THEN a ELSE b
             lo == IF a[2] >= b[2] THEN b ELSE a
             d  == hi[2] - lo[2]
         IN  IF d > 2 * MantBits + 1 THEN hi
             ELSE Round(hi[1] * (2 ^ d) + lo[1], lo[2])

FSub(a, b) == FAdd(a, FNeg(b))

\* a / b: the quotient with MantBits + 2 exact bits and a sticky bit for
\* the remainder, rounded.
FDiv(a, b) ==
    IF a[1] = 0 THEN Zero
    ELSE LET n1 == Abs(a[1])
             n2 == Abs(b[1])
             s  == BitLen(n2) + MantBits + 2 - BitLen(n1)
             q  == (n1 * (2 ^ s)) \div n2
             r  == (n1 * (2 ^ s)) % n2
             q2 == 2 * q + (IF r = 0 THEN 0 ELSE 1)
         IN  Round(Sgn(a[1]) * Sgn(b[1]) * q2, a[2] - b[2] - s - 1)

\* Sign of a - b, exactly.
FCmp(a, b) ==
    IF a[1] = 0 THEN -Sgn(b[1])
    ELSE IF b[1] = 0 THEN Sgn(a[1])
    ELSE IF Sgn(a[1]) # Sgn(b[1]) THEN Sgn(a[1])
    ELSE LET hi == IF a[2] >= b[2] THEN a ELSE b
             lo == IF a[2] >= b[2] THEN b ELSE a
             d  == hi[2] - lo[2]
             s  == IF d > 2 * MantBits + 1 THEN Sgn(hi[1])
                   ELSE Sgn(hi[1] * (2 ^ d) - lo[1])
         IN  IF a[2] >= b[2] THEN s ELSE -s

FLt(a, b) == FCmp(a, b) < 0

FLe(a, b) == FCmp(a, b) <= 0

FGt(a, b) == FCmp(a, b) > 0

FGe(a, b) == FCmp(a, b) >= 0

\* The float a decimal literal n/d denotes (0.25, 0.05, ...).
Lit(n, d) == FDiv(Exact(n), Exact(d))

\* Python's None (an overlay that is switched off).
None == <<>>

\* Python's float("nan"): every ordered comparison with it is false.
NaN == <<0, 0, 0>>

\* ------------------------------------------------------------------
\* State
\* ------------------------------------------------------------------
VARIABLES
    \* Backtest.__init__ (configuration, fixed by the constructor)
    initial_balance, maker_fee, taker_fee, slippage_rate, spread_rate,
    fill_ratio, trade_fraction,
    \* Backtest.reset (ledger, trade log, equity curve)
    balance, position_amt, avg_entry_price, trade_log, portfolio_values,
    \* Backtest.run and its two loops
    pc,                         \* "idle", "run_signal", "run_grid", "done"
    n,                          \* len(df)
    i,                          \* rows of df processed so far
    row,                        \* df.iloc[i - 1], the row processed last
    sl_pct, tp_pct, trailing_pct,
    highest_price_since_entry,
    \* the GridStrategy handed to run (None for a signal strategy)
    strategy,
    executed_orders,            \* what check_execution returned for row
    called,                     \* methods of strategy this call of run used
    \* the calls of run on this Backtest
    df,                         \* the rows (and signals) processed, in order
    earlier,                    \* the call of run before this one, or None
    given,                      \* the arguments Backtest was constructed with
    \* what lives outside the two engines
    drawdown,                   \* a call of Backtest.calculate_drawdown
    trader,                     \* a LiveTrader (src/live_trader.py)
    settings                    \* the module src/config.py and its callers

config == <<initial_balance, maker_fee, taker_fee, slippage_rate, spread_rate,
            fill_ratio, trade_fraction, given>>

ledger == <<balance, position_amt, avg_entry_price, trade_log, portfolio_values>>

overlays == <<sl_pct, tp_pct, trailing_pct>>

calls == <<df, earlier>>

outside == <<drawdown, trader, settings>>

\* A Backtest and the run it is in.
backtest == <<config, ledger, pc, n, i, row, overlays,
              highest_price_since_entry, strategy, executed_orders, called, calls>>

vars == <<backtest, outside>>

\* ------------------------------------------------------------------
\* Inputs the model draws from
\* ------------------------------------------------------------------
Args(ib, mf, tf, sb, sp, fr, fraction) ==
    [initial_balance |-> ib, maker_fee |-> mf, taker_fee |-> tf,
     slippage_bps |-> sb, spread_bps |-> sp, fill_ratio |-> fr,
     trade_fraction |-> fraction]

Half == Lit(1, 2)

\* Constructor arguments: fees in per cent, slippage and spread in basis
\* points, fill_ratio and trade_fraction as fractions.  The last three
\* give fill_ratio and trade_fraction outside [0, 1] and as NaN.
ConstructorArgs ==
    { Args(Exact(100), mf, tf, sb, Zero, fr, fraction) :
        mf \in {Zero}, tf \in {Zero, One}, sb \in {Zero, Exact(100)},
        fr \in {Half, One}, fraction \in {Half, One} }
    \cup { Args(Exact(100), Exact(-2), Zero, Zero, Zero, One, One),
           Args(Exact(100), Zero, Zero, Zero, Zero, Zero, One),
           Args(Exact(100), Zero, Zero, Zero, Zero, One, Zero),
           Args(Exact(100), Zero, Zero, Zero, Exact(100), One, One),
           Args(Exact(201), Zero, Zero, Zero, Zero, One, Lit(3, 10)),
           Args(Exact(100), Zero, Zero, One, Zero, One, One),
           Args(Exact(100), Zero, Zero, Zero, Zero, Lit(3, 10), One),
           Args(Exact(100), Zero, Zero, Zero, Zero, Exact(-1), Two),
           Args(Exact(100), Zero, Zero, Zero, Zero, Two, Exact(-1)),
           Args(Exact(100), Zero, Zero, Zero, Zero, NaN, NaN) }

\* Prices of the rows of df.
Lo == Exact(3)

Mid == Exact(7)

Hi == Exact(12)

\* Rows of df: high, low, close with low <= close <= high.
Rows ==
    { [high |-> Mid, low |-> Mid, close |-> Mid],
      [high |-> Hi,  low |-> Lo,  close |-> Mid],
      [high |-> Hi,  low |-> Mid, close |-> Hi] }

NoRow == [high |-> Zero, low |-> Zero, close |-> Zero]

\* Values of the signal column: LONG_ENTRY, EXIT, NONE.
Signals == {1, -1, 0}

\* Overlays of run.
SlPcts == {None, Lit(1, 4)}

TpPcts == {None, Half}

TrailingPcts == {None, Lit(1, 4)}

\* ------------------------------------------------------------------
\* Backtest.__init__, Backtest.reset
\* ------------------------------------------------------------------
\* Clamp01 that takes the argument as it is.
Unclamped(v) == v

\* max(0.0, min(float(v), 1.0))
Clamp01(v) ==
    LET lo == IF FLt(One, v) THEN One ELSE v
    IN  IF FGt(lo, Zero) THEN lo ELSE Zero

\* Backtest(**a)
New(a) ==
    /\ given = a
    /\ initial_balance = a.initial_balance
    /\ maker_fee = FDiv(a.maker_fee, Exact(100))
    /\ taker_fee = FDiv(a.taker_fee, Exact(100))
    /\ slippage_rate = FDiv(a.slippage_bps, Exact(10000))
    /\ spread_rate = FDiv(a.spread_bps, Exact(10000))
    /\ fill_ratio = Clamp01(a.fill_ratio)
    /\ trade_fraction = Clamp01(a.trade_fraction)
    /\ balance = initial_balance
    /\ position_amt = Zero
    /\ avg_entry_price = Zero
    /\ trade_log = <<>>
    /\ portfolio_values = <<>>
    /\ pc = "idle"
    /\ n = 0
    /\ i = 0
    /\ row = NoRow
    /\ sl_pct = None /\ tp_pct = None /\ trailing_pct = None
    /\ highest_price_since_entry = Zero
    /\ strategy = None
    /\ executed_orders = <<>>
    /\ called = {}
    /\ df = <<>>
    /\ earlier = None

\* No call of calculate_drawdown, no LiveTrader, src/config.py not loaded.
Unused == drawdown = None /\ trader = None /\ settings = None

Init == (\E a \in ConstructorArgs : New(a)) /\ Unused

\* ------------------------------------------------------------------
\* Backtest._apply_slippage
\* ------------------------------------------------------------------
ApplySlippage(price, side) ==
    IF side = "buy"
    THEN FMul(FMul(price, FAdd(One, FDiv(spread_rate, Two))),
              FAdd(One, slippage_rate))
    ELSE IF side = "sell"
    THEN FMul(FMul(price, FSub(One, FDiv(spread_rate, Two))),
              FSub(One, slippage_rate))
    ELSE price

\* ------------------------------------------------------------------
\* Backtest.run_signal: one iteration of the loop
\* ------------------------------------------------------------------
\* ExitCheck with the take-profit consulted before the stop-loss.
ExitCheckTakeProfitFirst(r, highest) ==
    LET sl_price == FMul(avg_entry_price, FSub(One, sl_pct))
        tp_price == FMul(avg_entry_price, FAdd(One, tp_pct))
        ts_price == FMul(highest, FSub(One, trailing_pct))
    IN  IF tp_pct # None /\ FGe(r.high, tp_price)
        THEN [is_exit |-> TRUE, exit_reason |-> "TAKE_PROFIT", exit_price |-> tp_price]
        ELSE IF sl_pct # None /\ FLe(r.low, sl_price)
        THEN [is_exit |-> TRUE, exit_reason |-> "STOP_LOSS", exit_price |-> sl_price]
        ELSE IF trailing_pct # None /\ FLe(r.low, ts_price)
        THEN [is_exit |-> TRUE, exit_reason |-> "TRAILING_STOP", exit_price |-> ts_price]
        ELSE [is_exit |-> FALSE, exit_reason |-> "", exit_price |-> r.close]

\* ExitCheck with the stops filled at the low of the row and the
\* take-profit at its high, instead of at the thresholds.
ExitCheckAtExtremes(r, highest) ==
    LET sl_price == FMul(avg_entry_price, FSub(One, sl_pct))
        tp_price == FMul(avg_entry_price, FAdd(One, tp_pct))
        ts_price == FMul(highest, FSub(One, trailing_pct))
    IN  IF sl_pct # None /\ FLe(r.low, sl_price)
        THEN [is_exit |-> TRUE, exit_reason |-> "STOP_LOSS", exit_price |-> r.low]
        ELSE IF tp_pct # None /\ FGe(r.high, tp_price)
        THEN [is_exit |-> TRUE, exit_reason |-> "TAKE_PROFIT", exit_price |-> r.high]
        ELSE IF trailing_pct # None /\ FLe(r.low, ts_price)
        THEN [is_exit |-> TRUE, exit_reason |-> "TRAILING_STOP", exit_price |-> r.low]
        ELSE [is_exit |-> FALSE, exit_reason |-> "", exit_price |-> r.close]

\* Lines 112-139: the exit check of a bar on which a position is held.
\* highest is highest_price_since_entry after line 118.
ExitCheck(r, highest) ==
    LET sl_price == FMul(avg_entry_price, FSub(One, sl_pct))
        tp_price == FMul(avg_entry_price, FAdd(One, tp_pct))
        ts_price == FMul(highest, FSub(One, trailing_pct))
    IN  IF sl_pct # None /\ FLe(r.low, sl_price)
        THEN [is_exit |-> TRUE, exit_reason |-> "STOP_LOSS", exit_price |-> sl_price]
        ELSE IF tp_pct # None /\ FGe(r.high, tp_price)
        THEN [is_exit |-> TRUE, exit_reason |-> "TAKE_PROFIT", exit_price |-> tp_price]
        ELSE IF trailing_pct # None /\ FLe(r.low, ts_price)
        THEN [is_exit |-> TRUE, exit_reason |-> "TRAILING_STOP", exit_price |-> ts_price]
        ELSE [is_exit |-> FALSE, exit_reason |-> "", exit_price |-> r.close]

\* Lines 144, 167, 194, 214: balance + position_amt * price.
CurrentVal(bal, pos, price) == FAdd(bal, FMul(pos, price))

\* Line 161: the value recorded on a bar that took a risk exit.
ExitBarValue(bal, pos, price) == bal

LogEntry(ts, type, price, amount, fee) ==
    [timestamp |-> ts, type |-> type, price |-> price, amount |-> amount,
     fee |-> fee]

\* RiskExit without its continue: the row goes on to the signal check and,
\* flat again, enters on a LONG_ENTRY signal.
RiskExitThenEntry(r, chk, highest) ==
    LET sold_amount == FMul(position_amt, fill_ratio)
        exec_exit_price == ApplySlippage(chk.exit_price, "sell")
        revenue == FMul(sold_amount, exec_exit_price)
        fee == FMul(revenue, taker_fee)
        bal == FAdd(balance, FSub(revenue, fee))
        pos == FSub(position_amt, sold_amount)
        exec_buy_price == ApplySlippage(r.close, "buy")
        actual_amount ==
            FMul(FDiv(FMul(bal, trade_fraction),
                      FMul(exec_buy_price, FAdd(One, taker_fee))), fill_ratio)
        cost == FMul(actual_amount, exec_buy_price)
        buy_fee == FMul(cost, taker_fee)
    IN  /\ balance' = FSub(bal, FAdd(cost, buy_fee))
        /\ position_amt' = FAdd(pos, actual_amount)
        /\ avg_entry_price' = exec_buy_price
        /\ highest_price_since_entry' = exec_buy_price
        /\ trade_log' = Append(Append(trade_log,
                LogEntry(i, "SELL (" \o chk.exit_reason \o ")",
                         exec_exit_price, sold_amount, fee)),
                LogEntry(i, "BUY", exec_buy_price, actual_amount, buy_fee))
        /\ portfolio_values' =
                Append(portfolio_values,
                       CurrentVal(balance', position_amt', r.close))

\* Lines 141-162: the risk exit.
RiskExit(r, chk, highest) ==
    LET sold_amount == FMul(position_amt, fill_ratio)
        exec_exit_price == ApplySlippage(chk.exit_price, "sell")
        revenue == FMul(sold_amount, exec_exit_price)
        fee == FMul(revenue, taker_fee)
        bal == FAdd(balance, FSub(revenue, fee))
        pos == FSub(position_amt, sold_amount)
    IN  IF FLe(sold_amount, Zero)
        THEN /\ portfolio_values' =
                    Append(portfolio_values, CurrentVal(balance, position_amt, r.close))
             /\ UNCHANGED <<balance, position_amt, avg_entry_price, trade_log>>
             /\ highest_price_since_entry' = highest
        ELSE /\ balance' = bal
             /\ position_amt' = pos
             /\ trade_log' = Append(trade_log,
                    LogEntry(i, "SELL (" \o chk.exit_reason \o ")",
                             exec_exit_price, sold_amount, fee))
             /\ portfolio_values' =
                    Append(portfolio_values, ExitBarValue(bal, pos, r.close))
             /\ UNCHANGED avg_entry_price
             /\ highest_price_since_entry' = highest

\* Entry that leaves highest_price_since_entry what it was.
EntryKeepingHighest(r, highest) ==
    LET price == r.close
        budget == FMul(balance, trade_fraction)
        exec_buy_price == ApplySlippage(price, "buy")
        intended_amount == FDiv(budget, FMul(exec_buy_price, FAdd(One, taker_fee)))
        actual_amount == FMul(intended_amount, fill_ratio)
        cost == FMul(actual_amount, exec_buy_price)
        fee == FMul(cost, taker_fee)
        pos == FAdd(position_amt, actual_amount)
        bal == FSub(balance, FAdd(cost, fee))
    IN  IF FLe(budget, Zero)
        THEN /\ portfolio_values' =
                    Append(portfolio_values, CurrentVal(balance, position_amt, price))
             /\ UNCHANGED <<balance, position_amt, avg_entry_price, trade_log>>
             /\ highest_price_since_entry' = highest
        ELSE /\ position_amt' = pos
             /\ avg_entry_price' = exec_buy_price
             /\ balance' = bal
             /\ highest_price_since_entry' = highest
             /\ trade_log' = Append(trade_log,
                    LogEntry(i, "BUY", exec_buy_price, actual_amount, fee))
             /\ portfolio_values' =
                    Append(portfolio_values, CurrentVal(bal, pos, price))

\* Entry that logs the fee and does not take it from the cash.
EntryFeeNotTaken(r, highest) ==
    LET price == r.close
        budget == FMul(balance, trade_fraction)
        exec_buy_price == ApplySlippage(price, "buy")
        intended_amount == FDiv(budget, FMul(exec_buy_price, FAdd(One, taker_fee)))
        actual_amount == FMul(intended_amount, fill_ratio)
        cost == FMul(actual_amount, exec_buy_price)
        fee == FMul(cost, taker_fee)
        pos == FAdd(position_amt, actual_amount)
        bal == FSub(balance, cost)
    IN  IF FLe(budget, Zero)
        THEN /\ portfolio_values' =
                    Append(portfolio_values, CurrentVal(balance, position_amt, price))
             /\ UNCHANGED <<balance, position_amt, avg_entry_price, trade_log>>
             /\ highest_price_since_entry' = highest
        ELSE /\ position_amt' = pos
             /\ avg_entry_price' = exec_buy_price
             /\ balance' = bal
             /\ highest_price_since_entry' = exec_buy_price
             /\ trade_log' = Append(trade_log,
                    LogEntry(i, "BUY", exec_buy_price, actual_amount, fee))
             /\ portfolio_values' =
                    Append(portfolio_values, CurrentVal(bal, pos, price))

\* Lines 164-189, 214-215: the entry.
Entry(r, highest) ==
    LET price == r.close
        budget == FMul(balance, trade_fraction)
        exec_buy_price == ApplySlippage(price, "buy")
        intended_amount == FDiv(budget, FMul(exec_buy_price, FAdd(One, taker_fee)))
        actual_amount == FMul(intended_amount, fill_ratio)
        cost == FMul(actual_amount, exec_buy_price)
        fee == FMul(cost, taker_fee)
        pos == FAdd(position_amt, actual_amount)
        bal == FSub(balance, FAdd(cost, fee))
    IN  IF FLe(budget, Zero)
        THEN /\ portfolio_values' =
                    Append(portfolio_values, CurrentVal(balance, position_amt, price))
             /\ UNCHANGED <<balance, position_amt, avg_entry_price, trade_log>>
             /\ highest_price_since_entry' = highest
        ELSE /\ position_amt' = pos
             /\ avg_entry_price' = exec_buy_price
             /\ balance' = bal
             /\ highest_price_since_entry' = exec_buy_price
             /\ trade_log' = Append(trade_log,
                    LogEntry(i, "BUY", exec_buy_price, actual_amount, fee))
             /\ portfolio_values' =
                    Append(portfolio_values, CurrentVal(bal, pos, price))

\* SignalExit that closes the whole position whatever fill_ratio is.
SignalExitInFull(r, highest) ==
    LET price == r.close
        sold_amount == position_amt
        exec_sell_price == ApplySlippage(price, "sell")
        revenue == FMul(sold_amount, exec_sell_price)
        fee == FMul(revenue, taker_fee)
        bal == FAdd(balance, FSub(revenue, fee))
    IN  /\ balance' = bal
        /\ position_amt' = Zero
        /\ trade_log' = Append(trade_log,
               LogEntry(i, "SELL (SIGNAL)", exec_sell_price, sold_amount, fee))
        /\ portfolio_values' = Append(portfolio_values, bal)
        /\ UNCHANGED avg_entry_price
        /\ highest_price_since_entry' = highest

\* Lines 191-215: the exit on signal.
SignalExit(r, highest) ==
    LET price == r.close
        sold_amount == FMul(position_amt, fill_ratio)
        exec_sell_price == ApplySlippage(price, "sell")
        revenue == FMul(sold_amount, exec_sell_price)
        fee == FMul(revenue, taker_fee)
        bal == FAdd(balance, FSub(revenue, fee))
        pos == FSub(position_amt, sold_amount)
    IN  IF FLe(sold_amount, Zero)
        THEN /\ portfolio_values' =
                    Append(portfolio_values, CurrentVal(balance, position_amt, price))
             /\ UNCHANGED <<balance, position_amt, avg_entry_price, trade_log>>
             /\ highest_price_since_entry' = highest
        ELSE /\ balance' = bal
             /\ position_amt' = pos
             /\ trade_log' = Append(trade_log,
                    LogEntry(i, "SELL (SIGNAL)", exec_sell_price, sold_amount, fee))
             /\ portfolio_values' =
                    Append(portfolio_values, CurrentVal(bal, pos, price))
             /\ UNCHANGED avg_entry_price
             /\ highest_price_since_entry' = highest

\* NoTrade that records no point for the row.
NoTradeNoPoint(r, highest) ==
    /\ UNCHANGED <<balance, position_amt, avg_entry_price, trade_log,
                   portfolio_values>>
    /\ highest_price_since_entry' = highest

\* Lines 214-215 alone: no branch taken.
NoTrade(r, highest) ==
    /\ portfolio_values' =
            Append(portfolio_values, CurrentVal(balance, position_amt, r.close))
    /\ UNCHANGED <<balance, position_amt, avg_entry_price, trade_log>>
    /\ highest_price_since_entry' = highest

\* Lines 117-118.
Highest(r) ==
    IF FGt(position_amt, Zero) /\ FGt(r.high, highest_price_since_entry)
    THEN r.high
    ELSE highest_price_since_entry

\* SignalStep that enters on every LONG_ENTRY signal, flat or not.
SignalStepPyramiding(r, s) ==
    LET held == FGt(position_amt, Zero)
        highest == Highest(r)
        chk == ExitCheck(r, highest)
    IN  IF held /\ chk.is_exit THEN RiskExit(r, chk, highest)
        ELSE IF s = 1 THEN Entry(r, highest)
        ELSE IF s = -1 /\ held THEN SignalExit(r, highest)
        ELSE NoTrade(r, highest)

\* Lines 101-215: the body of the loop for the row r and its signal s.
SignalStep(r, s) ==
    LET held == FGt(position_amt, Zero)
        highest == Highest(r)
        chk == ExitCheck(r, highest)
    IN  IF held /\ chk.is_exit THEN RiskExit(r, chk, highest)
        ELSE IF s = 1 /\ position_amt = Zero THEN Entry(r, highest)
        ELSE IF s = -1 /\ held THEN SignalExit(r, highest)
        ELSE NoTrade(r, highest)

\* After the body: the next row, or the end of the loop and of run.
Advance ==
    /\ i' = i + 1
    /\ pc' = IF i + 1 = n THEN "done" ELSE pc

\* One iteration of the loop of run_signal, on the row r with the signal s.
SignalBarOn(r, s) ==
    /\ pc = "run_signal"
    /\ i < n
    /\ row' = r
    /\ SignalStep(r, s)
    /\ Advance
    /\ UNCHANGED <<config, n, overlays, strategy, executed_orders, called, outside>>

SignalBar ==
    /\ \E r \in Rows, s \in Signals : SignalBarOn(r, s)
    /\ UNCHANGED calls

\* ------------------------------------------------------------------
\* GridStrategy (src/strategy.py)
\* ------------------------------------------------------------------
\* Constructor arguments of the strategies handed to run.
GridArgs ==
    { [range_min |-> Lo, range_max |-> Hi, grid_num |-> 2,
       amount_per_grid |-> a, use_ema_filter |-> f] :
        a \in {One, Exact(5), Exact(40)}, f \in BOOLEAN }

\* span and min_periods of the trend filter.
EmaSpan == 200

EmaMinPeriods == 200

\* GridStrategy.__init__: the ladder, every level unoccupied.
NewGridStrategy(a) ==
    LET step == FDiv(FSub(a.range_max, a.range_min), Exact(a.grid_num))
    IN  [is_grid |-> TRUE,
         range_min |-> a.range_min,
         range_max |-> a.range_max,
         grid_num |-> a.grid_num,
         amount_per_grid |-> a.amount_per_grid,
         use_ema_filter |-> a.use_ema_filter,
         grids |-> [k \in 1..(a.grid_num + 1) |->
                        FAdd(a.range_min, FMul(Exact(k - 1), step))],
         grid_status |-> [k \in 1..(a.grid_num + 1) |-> FALSE],
         ema200 |-> None,
         ema_index |-> "none"]

\* GridStrategy.setup: ema200 is a series over the index df has at this
\* point; grid_status is left as it is.  ema200 holds the running mean of
\* the rows seen so far (the series is a prefix function of df).
Setup(st, df_index) ==
    IF st.use_ema_filter
    THEN [st EXCEPT !.ema200 = NaN, !.ema_index = df_index]
    ELSE [st EXCEPT !.ema200 = None, !.ema_index = "none"]

\* df['close'].ewm(span, adjust=False, min_periods).mean() at row t
\* (0-based), from its value at row t - 1.
EwmNext(prev, t, close) ==
    LET alpha == FDiv(Two, Exact(EmaSpan + 1))
    IN  IF t = 0 THEN close
        ELSE FAdd(FMul(FSub(One, alpha), prev), FMul(alpha, close))

\* Lines 171-178: self.ema200.loc[timestamp], 0 when the lookup raises.
\* run_grid calls setup before it re-indexes df by timestamp, so a series
\* over a positional index has no entry for a timestamp.
CurrentEma(st, t, mean) ==
    IF st.use_ema_filter /\ st.ema200 # None
    THEN IF st.ema_index = "datetime"
         THEN IF t + 1 < EmaMinPeriods THEN NaN ELSE mean
         ELSE Zero
    ELSE Zero

\* price < current_ema
BelowEma(price, current_ema) ==
    IF current_ema = NaN THEN FALSE ELSE FLt(price, current_ema)

Order(type, price, amount) == [type |-> type, price |-> price, amount |-> amount]

\* Scan that emits the BUY of a level and leaves the level unoccupied.
RECURSIVE ScanNoMark(_, _, _, _, _, _, _)
ScanNoMark(st, k, status, executions, high, low, current_ema) ==
    IF k > Len(st.grids) THEN [grid_status |-> status, executions |-> executions]
    ELSE LET price == st.grids[k]
         IN  IF ~status[k]
             THEN IF FLe(low, price)
                     /\ ~(st.use_ema_filter /\ BelowEma(price, current_ema))
                  THEN ScanNoMark(st, k + 1, status,
                            Append(executions, Order("BUY", price, st.amount_per_grid)),
                            high, low, current_ema)
                  ELSE ScanNoMark(st, k + 1, status, executions, high, low, current_ema)
             ELSE IF k + 1 <= Len(st.grids) /\ FGe(high, st.grids[k + 1])
                  THEN ScanNoMark(st, k + 1, [status EXCEPT ![k] = FALSE],
                            Append(executions,
                                   Order("SELL", st.grids[k + 1], st.amount_per_grid)),
                            high, low, current_ema)
                  ELSE ScanNoMark(st, k + 1, status, executions, high, low, current_ema)

\* Scan that visits the levels from the highest to the lowest.
RECURSIVE ScanDescending(_, _, _, _, _, _, _)
ScanDescending(st, k, status, executions, high, low, current_ema) ==
    IF k > Len(st.grids) THEN [grid_status |-> status, executions |-> executions]
    ELSE LET j == Len(st.grids) + 1 - k
             price == st.grids[j]
         IN  IF ~status[j]
             THEN IF FLe(low, price)
                     /\ ~(st.use_ema_filter /\ BelowEma(price, current_ema))
                  THEN ScanDescending(st, k + 1, [status EXCEPT ![j] = TRUE],
                            Append(executions, Order("BUY", price, st.amount_per_grid)),
                            high, low, current_ema)
                  ELSE ScanDescending(st, k + 1, status, executions, high, low,
                                      current_ema)
             ELSE IF j + 1 <= Len(st.grids) /\ FGe(high, st.grids[j + 1])
                  THEN ScanDescending(st, k + 1, [status EXCEPT ![j] = FALSE],
                            Append(executions,
                                   Order("SELL", st.grids[j + 1], st.amount_per_grid)),
                            high, low, current_ema)
                  ELSE ScanDescending(st, k + 1, status, executions, high, low,
                                      current_ema)

\* Scan in which the highest level, occupied, is sold at its own price.
RECURSIVE ScanTopSold(_, _, _, _, _, _, _)
ScanTopSold(st, k, status, executions, high, low, current_ema) ==
    IF k > Len(st.grids) THEN [grid_status |-> status, executions |-> executions]
    ELSE LET price == st.grids[k]
             sell_price == IF k + 1 <= Len(st.grids) THEN st.grids[k + 1] ELSE price
         IN  IF ~status[k]
             THEN IF FLe(low, price)
                     /\ ~(st.use_ema_filter /\ BelowEma(price, current_ema))
                  THEN ScanTopSold(st, k + 1, [status EXCEPT ![k] = TRUE],
                            Append(executions, Order("BUY", price, st.amount_per_grid)),
                            high, low, current_ema)
                  ELSE ScanTopSold(st, k + 1, status, executions, high, low,
                                   current_ema)
             ELSE IF FGe(high, sell_price)
                  THEN ScanTopSold(st, k + 1, [status EXCEPT ![k] = FALSE],
                            Append(executions,
                                   Order("SELL", sell_price, st.amount_per_grid)),
                            high, low, current_ema)
                  ELSE ScanTopSold(st, k + 1, status, executions, high, low,
                                   current_ema)

\* Lines 181-205: the scan of the levels from index k (1-based) on, in
\* ascending order; yields the new grid_status and the executions.
RECURSIVE Scan(_, _, _, _, _, _, _)
Scan(st, k, status, executions, high, low, current_ema) ==
    IF k > Len(st.grids) THEN [grid_status |-> status, executions |-> executions]
    ELSE LET price == st.grids[k]
         IN  IF ~status[k]
             THEN IF FLe(low, price)
                     /\ ~(st.use_ema_filter /\ BelowEma(price, current_ema))
                  THEN Scan(st, k + 1, [status EXCEPT ![k] = TRUE],
                            Append(executions, Order("BUY", price, st.amount_per_grid)),
                            high, low, current_ema)
                  ELSE Scan(st, k + 1, status, executions, high, low, current_ema)
             ELSE IF k + 1 <= Len(st.grids) /\ FGe(high, st.grids[k + 1])
                  THEN Scan(st, k + 1, [status EXCEPT ![k] = FALSE],
                            Append(executions,
                                   Order("SELL", st.grids[k + 1], st.amount_per_grid)),
                            high, low, current_ema)
                  ELSE Scan(st, k + 1, status, executions, high, low, current_ema)

\* GridStrategy.check_execution(high, low, timestamp) for row t.
CheckExecution(st, high, low, t, mean) ==
    Scan(st, 1, st.grid_status, <<>>, high, low, CurrentEma(st, t, mean))

\* ------------------------------------------------------------------
\* Backtest.run_grid: one iteration of the loop
\* ------------------------------------------------------------------
\* GridBuy without the check of the cash.
GridBuyUnchecked(l, order, ts) ==
    LET cost == FMul(order.price, order.amount)
        fee == FMul(cost, maker_fee)
    IN  [balance |-> FSub(l.balance, FAdd(cost, fee)),
         position_amt |-> FAdd(l.position_amt, order.amount),
         trade_log |-> Append(l.trade_log,
               LogEntry(ts, "GRID_BUY", order.price, order.amount, fee))]

\* GridBuy that charges the taker fee.
GridBuyAtTakerFee(l, order, ts) ==
    LET cost == FMul(order.price, order.amount)
        fee == FMul(cost, taker_fee)
    IN  IF FGe(l.balance, FAdd(cost, fee))
        THEN [balance |-> FSub(l.balance, FAdd(cost, fee)),
              position_amt |-> FAdd(l.position_amt, order.amount),
              trade_log |-> Append(l.trade_log,
                    LogEntry(ts, "GRID_BUY", order.price, order.amount, fee))]
        ELSE l

\* GridBuy that takes the fee of an order it rejects.
GridBuyFeeOnReject(l, order, ts) ==
    LET cost == FMul(order.price, order.amount)
        fee == FMul(cost, maker_fee)
    IN  IF FGe(l.balance, FAdd(cost, fee))
        THEN [balance |-> FSub(l.balance, FAdd(cost, fee)),
              position_amt |-> FAdd(l.position_amt, order.amount),
              trade_log |-> Append(l.trade_log,
                    LogEntry(ts, "GRID_BUY", order.price, order.amount, fee))]
        ELSE [l EXCEPT !.balance = FSub(l.balance, fee)]

\* GridBuy at the price _apply_slippage gives for a buy.
GridBuyWithSlippage(l, order, ts) ==
    LET price == ApplySlippage(order.price, "buy")
        cost == FMul(price, order.amount)
        fee == FMul(cost, maker_fee)
    IN  IF FGe(l.balance, FAdd(cost, fee))
        THEN [balance |-> FSub(l.balance, FAdd(cost, fee)),
              position_amt |-> FAdd(l.position_amt, order.amount),
              trade_log |-> Append(l.trade_log,
                    LogEntry(ts, "GRID_BUY", price, order.amount, fee))]
        ELSE l

\* Lines 238-253.
GridBuy(l, order, ts) ==
    LET cost == FMul(order.price, order.amount)
        fee == FMul(cost, maker_fee)
    IN  IF FGe(l.balance, FAdd(cost, fee))
        THEN [balance |-> FSub(l.balance, FAdd(cost, fee)),
              position_amt |-> FAdd(l.position_amt, order.amount),
              trade_log |-> Append(l.trade_log,
                    LogEntry(ts, "GRID_BUY", order.price, order.amount, fee))]
        ELSE l

\* GridSell without the check of the position held.
GridSellUnchecked(l, order, ts) ==
    LET revenue == FMul(order.price, order.amount)
        fee == FMul(revenue, maker_fee)
    IN  [balance |-> FAdd(l.balance, FSub(revenue, fee)),
         position_amt |-> FSub(l.position_amt, order.amount),
         trade_log |-> Append(l.trade_log,
               LogEntry(ts, "GRID_SELL", order.price, order.amount, fee))]

\* Lines 255-270.
GridSell(l, order, ts) ==
    LET revenue == FMul(order.price, order.amount)
        fee == FMul(revenue, maker_fee)
    IN  IF FGe(l.position_amt, order.amount)
        THEN [balance |-> FAdd(l.balance, FSub(revenue, fee)),
              position_amt |-> FSub(l.position_amt, order.amount),
              trade_log |-> Append(l.trade_log,
                    LogEntry(ts, "GRID_SELL", order.price, order.amount, fee))]
        ELSE l

\* Lines 234-270: the orders applied in the order the strategy gave them.
RECURSIVE ApplyOrders(_, _, _, _)
ApplyOrders(l, orders, k, ts) ==
    IF k > Len(orders) THEN l
    ELSE ApplyOrders(IF orders[k].type = "BUY" THEN GridBuy(l, orders[k], ts)
                     ELSE IF orders[k].type = "SELL" THEN GridSell(l, orders[k], ts)
                     ELSE l,
                     orders, k + 1, ts)

\* Lines 224-273.
\* The value of the ema200 series at row t (0-based) with close c, st.ema200
\* being its value at row t - 1.
Mean(st, t, c) ==
    IF st.ema200 = None THEN Zero ELSE EwmNext(st.ema200, t, c)

\* One iteration of the loop of run_grid, on the row r.
GridBarOn(r) ==
    /\ pc = "run_grid"
    /\ i < n
    /\ LET mean == Mean(strategy, i, r.close)
           res  == CheckExecution(strategy, r.high, r.low, i, mean)
           l    == ApplyOrders([balance |-> balance, position_amt |-> position_amt,
                                trade_log |-> trade_log],
                               res.executions, 1, i)
       IN  /\ row' = r
           /\ strategy' = [strategy EXCEPT
                              !.grid_status = res.grid_status,
                              !.ema200 = IF @ = None THEN None ELSE mean]
           /\ executed_orders' = res.executions
           /\ called' = called \cup {"check_execution"}
           /\ balance' = l.balance
           /\ position_amt' = l.position_amt
           /\ trade_log' = l.trade_log
           /\ portfolio_values' =
                  Append(portfolio_values,
                         CurrentVal(l.balance, l.position_amt, r.close))
    /\ Advance
    /\ UNCHANGED <<config, n, overlays, avg_entry_price, highest_price_since_entry,
                   outside>>

GridBar ==
    /\ \E r \in Rows : GridBarOn(r)
    /\ UNCHANGED calls

\* ------------------------------------------------------------------
\* Backtest.run
\* ------------------------------------------------------------------
\* Reset that leaves the position and its entry price as they are.
ResetKeepingPosition(sl, tp, trailing, len) ==
    /\ balance' = initial_balance
    /\ UNCHANGED <<position_amt, avg_entry_price>>
    /\ trade_log' = <<>>
    /\ portfolio_values' = <<>>
    /\ sl_pct' = sl
    /\ tp_pct' = tp
    /\ trailing_pct' = trailing
    /\ n' = len
    /\ i' = 0

\* Lines 42-48 and the arguments of run.
Reset(sl, tp, trailing, len) ==
    /\ balance' = initial_balance
    /\ position_amt' = Zero
    /\ avg_entry_price' = Zero
    /\ trade_log' = <<>>
    /\ portfolio_values' = <<>>
    /\ sl_pct' = sl
    /\ tp_pct' = tp
    /\ trailing_pct' = trailing
    /\ n' = len
    /\ i' = 0

\* Line 73: hasattr(strategy, "is_grid") and strategy.is_grid.  A signal
\* strategy (None here) has no such attribute.
IsGrid(st) == st # None /\ st.is_grid

\* Engine that takes every strategy through run_signal.
EngineSignalOnly(st) == "run_signal"

\* Lines 73-76: the engine run hands the strategy to.
Engine(st) == IF IsGrid(st) THEN "run_grid" ELSE "run_signal"

\* run(df, st, sl, tp, trailing) with len(df) = len, up to the first
\* iteration of the loop of the engine: reset, the choice of the engine,
\* and what the engine does before its loop (lines 97-99, lines 219-222;
\* ix is the kind of index df has when setup is called).
Run(st, ix, sl, tp, trailing, len) ==
    /\ Reset(sl, tp, trailing, len)
    /\ executed_orders' = <<>>
    /\ IF Engine(st) = "run_grid"
       THEN /\ strategy' = Setup(st, ix)
            /\ called' = {"setup"}
            /\ UNCHANGED highest_price_since_entry
       ELSE /\ strategy' = st
            /\ called' = {"generate_signals"}
            /\ highest_price_since_entry' = Zero
    /\ pc' = IF len = 0 THEN "done" ELSE Engine(st)
    /\ UNCHANGED <<config, row, outside>>

IndexKinds == {"range", "datetime"}

\* The first call of run, with a strategy without a truthy is_grid and a
\* frame of at most m rows.
RunSignalUpTo(m) ==
    /\ pc = "idle"
    /\ \E sl \in SlPcts, tp \in TpPcts, trailing \in TrailingPcts, len \in 0..m :
          Run(None, "none", sl, tp, trailing, len)
    /\ UNCHANGED calls

\* The first call of run, with a new GridStrategy.
RunGridUpTo(m) ==
    /\ pc = "idle"
    /\ \E a \in GridArgs, ix \in IndexKinds, len \in 0..m :
          Run(NewGridStrategy(a), ix, None, None, None, len)
    /\ UNCHANGED calls

RunSignal == RunSignalUpTo(MaxBars)

RunGrid == RunGridUpTo(MaxBars)

Next == RunSignal \/ SignalBar \/ RunGrid \/ GridBar

Spec == Init /\ [][Next]_vars

\* ------------------------------------------------------------------
\* Two calls of run on one Backtest, the second with the frame of the first
\* ------------------------------------------------------------------
RerunArgs ==
    { Args(Exact(100), Zero, Zero, Zero, Zero, One, One),
      Args(Exact(100), Zero, One, Exact(100), Zero, Half, Half),
      Args(Exact(201), Zero, Zero, Zero, Zero, One, Lit(3, 10)) }

RerunInit == (\E a \in RerunArgs : New(a)) /\ Unused

FirstRunSignal == RunSignalUpTo(MaxRerunBars)

FirstRunGrid == RunGridUpTo(MaxRerunBars)

\* An iteration of the first call; df keeps the row and its signal.
RecordedSignalBar ==
    /\ earlier = None
    /\ \E r \in Rows, s \in Signals :
          /\ SignalBarOn(r, s)
          /\ df' = Append(df, [row |-> r, signal |-> s])
    /\ UNCHANGED earlier

RecordedGridBar ==
    /\ earlier = None
    /\ \E r \in Rows :
          /\ GridBarOn(r)
          /\ df' = Append(df, [row |-> r, signal |-> 0])
    /\ UNCHANGED earlier

\* What the call that has just returned was given and what it returned
\* (line 90); handed is the strategy the next call is given.
Returned(handed) ==
    [sl_pct |-> sl_pct, tp_pct |-> tp_pct, trailing_pct |-> trailing_pct,
     position_amt |-> position_amt,
     portfolio_values |-> portfolio_values, trade_log |-> trade_log,
     handed |-> handed]

\* GridStrategy(...) with the arguments st was made with.
Fresh(st) ==
    NewGridStrategy([range_min |-> st.range_min, range_max |-> st.range_max,
                     grid_num |-> st.grid_num,
                     amount_per_grid |-> st.amount_per_grid,
                     use_ema_filter |-> st.use_ema_filter])

\* Overlays handed to run together with a GridStrategy.
GridOverlays == { <<None, None, None>>, <<Lit(1, 4), Half, Lit(1, 4)>> }

\* The second call: the same frame, signals and overlays.
RunSignalAgain ==
    /\ pc = "done"
    /\ earlier = None
    /\ ~IsGrid(strategy)
    /\ Run(strategy, "none", sl_pct, tp_pct, trailing_pct, n)
    /\ earlier' = Returned(strategy)
    /\ UNCHANGED df

\* The second call: the same frame, the GridStrategy of the first call or
\* a new one made alike, any overlays.
RunGridAgain ==
    /\ pc = "done"
    /\ earlier = None
    /\ IsGrid(strategy)
    /\ \E st \in {strategy, Fresh(strategy)}, o \in GridOverlays,
          ix \in IF strategy.use_ema_filter THEN {strategy.ema_index} ELSE {"range"} :
          /\ Run(st, ix, o[1], o[2], o[3], n)
          /\ earlier' = Returned(st)
    /\ UNCHANGED df

\* An iteration of the second call.
ReplaySignalBar ==
    /\ earlier # None
    /\ pc = "run_signal"
    /\ SignalBarOn(df[i + 1].row, df[i + 1].signal)
    /\ UNCHANGED calls

ReplayGridBar ==
    /\ earlier # None
    /\ pc = "run_grid"
    /\ GridBarOn(df[i + 1].row)
    /\ UNCHANGED calls

RerunNext ==
    \/ FirstRunSignal \/ RecordedSignalBar \/ RunSignalAgain \/ ReplaySignalBar
    \/ FirstRunGrid \/ RecordedGridBar \/ RunGridAgain \/ ReplayGridBar

RerunSpec == RerunInit /\ [][RerunNext]_vars

\* ------------------------------------------------------------------
\* A grid run over a frame long enough for the trend filter to have a value
\* ------------------------------------------------------------------
TrendArgs ==
    { Args(Exact(100), Zero, Zero, Zero, Zero, One, One),
      Args(Exact(201), Zero, Zero, Zero, Zero, One, Lit(3, 10)) }

TrendInit == (\E a \in TrendArgs : New(a)) /\ Unused

\* The rows on which ewm(..., min_periods=200).mean() is still NaN.
WarmUp == EmaMinPeriods - 1

\* The row of a flat market.
Flat == [high |-> Mid, low |-> Mid, close |-> Mid]

\* run with a new GridStrategy that uses the filter, on a frame that is
\* flat for its first WarmUp rows.
TrendRunGrid ==
    /\ pc = "idle"
    /\ \E a \in {g \in GridArgs : g.use_ema_filter}, ix \in IndexKinds,
          len \in 1..MaxTrendBars :
          Run(NewGridStrategy(a), ix, None, None, None, WarmUp + len)
    /\ UNCHANGED calls

WarmUpBar ==
    /\ i < WarmUp
    /\ GridBarOn(Flat)
    /\ UNCHANGED calls

TrendBar ==
    /\ i >= WarmUp
    /\ \E r \in Rows : GridBarOn(r)
    /\ UNCHANGED calls

TrendNext == TrendRunGrid \/ WarmUpBar \/ TrendBar

TrendSpec == TrendInit /\ [][TrendNext]_vars

\* ------------------------------------------------------------------
\* Properties
\* ------------------------------------------------------------------
Last(q) == q[Len(q)]

\* A run of run_signal is under way or has returned, with rows processed.
InSignalRun == strategy = None /\ pc \in {"run_signal", "done"} /\ i > 0

InGridRun == strategy # None /\ pc \in {"run_grid", "done"} /\ i > 0

\* The entries the trade log holds for the row processed last.
LoggedOnLastRow == { k \in 1..Len(trade_log) : trade_log[k].timestamp = i - 1 }

RiskTypes == {"SELL (STOP_LOSS)", "SELL (TAKE_PROFIT)", "SELL (TRAILING_STOP)"}

\* C1: in signal mode the point recorded for a row equals
\* balance + position_amt * close of that row, whatever branch was taken.
C1_PointIsCashPlusPosition ==
    InSignalRun =>
        Last(portfolio_values) = CurrentVal(balance, position_amt, row.close)

\* C1, where it fails: a risk exit that filled part of the position.
C1_PartialRiskExit ==
    /\ InSignalRun
    /\ \E k \in LoggedOnLastRow : trade_log[k].type \in RiskTypes
    /\ FGt(position_amt, Zero)
    /\ FLt(fill_ratio, One)

\* C2: every row appends exactly one point and a run over n rows returns
\* with exactly n points (both modes): each step of a loop processes one
\* more row and appends one point, a loop is running only while rows are
\* left, and run has returned only when all n rows are processed.
Running == pc \in {"run_signal", "run_grid"}

\* A step of either loop processes one more row and appends one point.
OneMorePoint ==
    /\ i' = i + 1
    /\ Len(portfolio_values') = Len(portfolio_values) + 1
    /\ SubSeq(portfolio_values', 1, Len(portfolio_values)) = portfolio_values

C2_OnePointPerRow ==
    /\ [](/\ Len(portfolio_values) = i
          /\ i <= n
          /\ (pc = "done" => Len(portfolio_values) = n)
          /\ (Running => i < n))
    /\ [][Running => OneMorePoint]_vars

C2_Witness ==
    /\ pc = "done"
    /\ n = MaxBars
    /\ Len(portfolio_values) = MaxBars
    /\ \E k \in 1..Len(trade_log) : trade_log[k].type \in RiskTypes

\* The thresholds of the three checks for a row r, from the state at the
\* start of the row; highest is highest_price_since_entry raised to r.high.
SlCond(r) ==
    sl_pct # None /\ FLe(r.low, FMul(avg_entry_price, FSub(One, sl_pct)))

TpCond(r) ==
    tp_pct # None /\ FGe(r.high, FMul(avg_entry_price, FAdd(One, tp_pct)))

RaisedHighest(r) ==
    IF FGt(r.high, highest_price_since_entry) THEN r.high
    ELSE highest_price_since_entry

TsCond(r) ==
    trailing_pct # None
        /\ FLe(r.low, FMul(RaisedHighest(r), FSub(One, trailing_pct)))

\* A step of run_signal that starts with a position held.
HeldStep == pc = "run_signal" /\ i' = i + 1 /\ FGt(position_amt, Zero)

\* The step appended exactly one entry, of the given type.
LoggedOne(type) ==
    /\ Len(trade_log') = Len(trade_log) + 1
    /\ SubSeq(trade_log', 1, Len(trade_log)) = trade_log
    /\ Last(trade_log').type = type

\* The step appended an entry of the given type.
Logged(type) ==
    \E k \in (Len(trade_log) + 1)..Len(trade_log') : trade_log'[k].type = type

\* C3: of the checks whose condition holds on a row, the first in the order
\* stop-loss, take-profit, trailing-stop decides the exit, and the row logs
\* exactly one entry; with all three conditions it is the stop-loss.
C3_ExitPrecedence ==
    [][HeldStep =>
        /\ (SlCond(row') => LoggedOne("SELL (STOP_LOSS)"))
        /\ (~SlCond(row') /\ TpCond(row') => LoggedOne("SELL (TAKE_PROFIT)"))
        /\ (~SlCond(row') /\ ~TpCond(row') /\ TsCond(row')
                => LoggedOne("SELL (TRAILING_STOP)"))]_vars

\* A row on which all three conditions held and the stop-loss was logged.
\* (avg_entry_price is not touched by the exit, and after the row
\* highest_price_since_entry is the raised value the check used.)
C3_Witness ==
    /\ InSignalRun
    /\ sl_pct # None /\ tp_pct # None /\ trailing_pct # None
    /\ FLe(row.low, FMul(avg_entry_price, FSub(One, sl_pct)))
    /\ FGe(row.high, FMul(avg_entry_price, FAdd(One, tp_pct)))
    /\ FLe(row.low, FMul(highest_price_since_entry, FSub(One, trailing_pct)))
    /\ LoggedOnLastRow = {Len(trade_log)}
    /\ Last(trade_log).type = "SELL (STOP_LOSS)"

\* C4 as stated: each exit kind is logged exactly when its own condition
\* holds.
C4_EachCheckAlone ==
    [][HeldStep =>
        /\ (Logged("SELL (STOP_LOSS)") <=> SlCond(row'))
        /\ (Logged("SELL (TAKE_PROFIT)") <=> TpCond(row'))
        /\ (Logged("SELL (TRAILING_STOP)") <=> TsCond(row'))]_vars

\* C4, amended: each exit kind is logged exactly when its condition holds
\* and no earlier check fired; the logged price is the threshold after the
\* sell-side adjustment; a check whose parameter is None never fires.
C4_ChecksInOrder ==
    [][HeldStep =>
        /\ (Logged("SELL (STOP_LOSS)") <=> SlCond(row'))
        /\ (Logged("SELL (TAKE_PROFIT)") <=> ~SlCond(row') /\ TpCond(row'))
        /\ (Logged("SELL (TRAILING_STOP)")
                <=> ~SlCond(row') /\ ~TpCond(row') /\ TsCond(row'))
        /\ (Logged("SELL (STOP_LOSS)") =>
                /\ sl_pct # None
                /\ Last(trade_log').price =
                     ApplySlippage(FMul(avg_entry_price, FSub(One, sl_pct)), "sell"))
        /\ (Logged("SELL (TAKE_PROFIT)") =>
                /\ tp_pct # None
                /\ Last(trade_log').price =
                     ApplySlippage(FMul(avg_entry_price, FAdd(One, tp_pct)), "sell"))
        /\ (Logged("SELL (TRAILING_STOP)") =>
                /\ trailing_pct # None
                /\ Last(trade_log').price =
                     ApplySlippage(FMul(RaisedHighest(row'),
                                        FSub(One, trailing_pct)), "sell"))]_vars

\* A take-profit logged at its threshold, which is none of the row's
\* low, high and close, behind a stop-loss that is set and did not fire.
C4_Witness ==
    /\ InSignalRun
    /\ sl_pct # None /\ tp_pct # None
    /\ LoggedOnLastRow = {Len(trade_log)}
    /\ Last(trade_log).type = "SELL (TAKE_PROFIT)"
    /\ Last(trade_log).price =
            ApplySlippage(FMul(avg_entry_price, FAdd(One, tp_pct)), "sell")
    /\ Last(trade_log).price \notin {row.low, row.high, row.close}
    /\ FGt(slippage_rate, Zero)

\* C5: in signal mode no two entries of the trade log belong to the same
\* row: a row with a risk exit logs nothing else, and no row both opens and
\* closes a position.
C5_OneEntryPerRow ==
    strategy = None =>
        \A j, k \in 1..Len(trade_log) :
            j < k => trade_log[j].timestamp < trade_log[k].timestamp

\* A row whose risk exit emptied the position (an entry signal on that row
\* would find the engine flat) and which logged the exit alone.
C5_Witness ==
    /\ InSignalRun
    /\ LoggedOnLastRow = {Len(trade_log)}
    /\ Last(trade_log).type \in RiskTypes
    /\ position_amt = Zero
    /\ FGt(balance, Zero) /\ FGt(trade_fraction, Zero)

\* C6: the cash balance is never negative.
C6_CashNonNegative == FGe(balance, Zero)

\* C7: the position is never negative.
C7_PositionNonNegative == FGe(position_amt, Zero)

\* A grid run in which every BUY was rejected for lack of cash, so that
\* the SELL orders of the levels the strategy took for occupied met an
\* empty position on the row processed last and were rejected too.
C7_Witness ==
    /\ InGridRun
    /\ i >= 2
    /\ trade_log = <<>>
    /\ position_amt = Zero
    /\ FGt(strategy.amount_per_grid, Zero)
    /\ strategy.grid_status = <<FALSE, FALSE, TRUE>>
    /\ FGe(row.high, strategy.grids[3])

\* C8: every entry of the trade log is a fill of a positive amount.
C8_LoggedAmountsPositive ==
    \A k \in 1..Len(trade_log) : FGt(trade_log[k].amount, Zero)

\* The engine was flat before the row with index t: the cash it held then.
CashBefore(t) == IF t = 0 THEN initial_balance ELSE portfolio_values[t]

\* C9: an entry debits balance * trade_fraction * fill_ratio, leaves at
\* least (1 - trade_fraction) of the cash, and sets avg_entry_price to the
\* adjusted buy price.
C9_EntryDebit ==
    [][(pc = "run_signal" /\ i' = i + 1 /\ Logged("BUY")) =>
        /\ FSub(balance, balance') = FMul(FMul(balance, trade_fraction), fill_ratio)
        /\ FGe(balance', FMul(FSub(One, trade_fraction), balance))
        /\ avg_entry_price' = ApplySlippage(row'.close, "buy")]_vars

NoCosts == taker_fee = Zero /\ slippage_rate = Zero /\ spread_rate = Zero

\* C10: without fee, slippage and spread and with fill_ratio 1, a BUY
\* followed by a SELL (SIGNAL) at the same price, for the same amount,
\* returns the cash and the portfolio value to the cash before the entry.
C10_RoundTripNeutral ==
    (/\ InSignalRun /\ NoCosts /\ fill_ratio = One
     /\ Len(trade_log) >= 2
     /\ trade_log[Len(trade_log) - 1].type = "BUY"
     /\ Last(trade_log).type = "SELL (SIGNAL)"
     /\ Last(trade_log).timestamp = i - 1
     /\ Last(trade_log).price = trade_log[Len(trade_log) - 1].price)
    => LET buy == trade_log[Len(trade_log) - 1]
           c   == CashBefore(buy.timestamp)
       IN  /\ Last(trade_log).amount = buy.amount
           /\ FGt(buy.amount, Zero)
           /\ balance = c
           /\ Last(portfolio_values) = c

\* The prices of the rows.
Prices == {Lo, Mid, Hi}

\* C11: _apply_slippage returns price * (1 + spread_rate/2) * (1 + slippage_rate)
\* for a buy, price * (1 - spread_rate/2) * (1 - slippage_rate) for a sell,
\* the price itself for any other side; and with slippage_rate > 0 the buy
\* price is strictly above and the sell price strictly below the price.
C11_SlippageMonotone ==
    \A p \in Prices :
        /\ ApplySlippage(p, "buy") =
               FMul(FMul(p, FAdd(One, FDiv(spread_rate, Two))), FAdd(One, slippage_rate))
        /\ ApplySlippage(p, "sell") =
               FMul(FMul(p, FSub(One, FDiv(spread_rate, Two))), FSub(One, slippage_rate))
        /\ ApplySlippage(p, "hold") = p
        /\ (FGt(slippage_rate, Zero) =>
               /\ FGt(ApplySlippage(p, "buy"), p)
               /\ FLt(ApplySlippage(p, "sell"), p))

\* An entry, then an exit on signal on the row processed last, at one and
\* the same close, and nothing else in the trade log.
RoundTrip ==
    /\ InSignalRun
    /\ Len(trade_log) = 2
    /\ trade_log[1].type = "BUY"
    /\ trade_log[2].type = "SELL (SIGNAL)"
    /\ trade_log[2].timestamp = i - 1
    /\ row.high = row.close /\ row.low = row.close
    /\ trade_log[1].price = ApplySlippage(row.close, "buy")

\* C12: without taker fee and with fill_ratio 1, a round trip at one
\* constant price under a positive slippage_rate or spread_rate ends with a
\* portfolio value strictly below initial_balance.
C12_CostsReducePnl ==
    (/\ RoundTrip
     /\ taker_fee = Zero /\ fill_ratio = One
     /\ (FGt(slippage_rate, Zero) \/ FGt(spread_rate, Zero)))
    => FLt(Last(portfolio_values), initial_balance)

\* A step of run_signal that logged a sell.
SellStep ==
    /\ pc = "run_signal" /\ i' = i + 1
    /\ Len(trade_log') = Len(trade_log) + 1
    /\ Last(trade_log').type \in RiskTypes \cup {"SELL (SIGNAL)"}

GridStep == pc = "run_grid" /\ i' = i + 1

\* The call of check_execution of this step returned a BUY of level k.
EmittedBuy(k) ==
    \E j \in 1..Len(executed_orders') :
        /\ executed_orders'[j].type = "BUY"
        /\ executed_orders'[j].price = strategy.grids[k]

\* ... a SELL of level k, which rests at the price of level k + 1.
EmittedSell(k) ==
    /\ k < Len(strategy.grids)
    /\ \E j \in 1..Len(executed_orders') :
          /\ executed_orders'[j].type = "SELL"
          /\ executed_orders'[j].price = strategy.grids[k + 1]

\* C14: check_execution emits a BUY only of a level that is unoccupied and
\* leaves it occupied, a SELL only of a level that is occupied and leaves
\* it unoccupied, at most one order per level, and changes the occupancy
\* of no level it emits no order for: an occupied level emits no BUY
\* before a SELL of that level has returned it to unoccupied.
C14_NoSecondBuy ==
    [][GridStep =>
        \A k \in 1..Len(strategy.grids) :
            /\ (EmittedBuy(k) =>
                    ~strategy.grid_status[k] /\ strategy'.grid_status[k])
            /\ (EmittedSell(k) =>
                    strategy.grid_status[k] /\ ~strategy'.grid_status[k])
            /\ (strategy'.grid_status[k] # strategy.grid_status[k] =>
                    EmittedBuy(k) \/ EmittedSell(k))
            /\ Cardinality({j \in 1..Len(executed_orders') :
                    /\ executed_orders'[j].type = "BUY"
                    /\ executed_orders'[j].price = strategy.grids[k]}) <= 1]_vars

\* The lowest level was bought, sold and bought again, and on the row
\* processed last the top level, bought on an earlier row and never sold,
\* was reached by the low again and emitted nothing.
C14_Witness ==
    /\ InGridRun
    /\ LET top == Len(strategy.grids)
       IN  /\ \E a, b, c \in 1..Len(trade_log) :
                 /\ a < b /\ b < c
                 /\ trade_log[a].type = "GRID_BUY"
                 /\ trade_log[a].price = strategy.grids[1]
                 /\ trade_log[b].type = "GRID_SELL"
                 /\ trade_log[b].price = strategy.grids[2]
                 /\ trade_log[c].type = "GRID_BUY"
                 /\ trade_log[c].price = strategy.grids[1]
           /\ \E a \in 1..Len(trade_log) :
                 /\ trade_log[a].type = "GRID_BUY"
                 /\ trade_log[a].price = strategy.grids[top]
                 /\ trade_log[a].timestamp < i - 1
           /\ strategy.grid_status[top]
           /\ FLe(row.low, strategy.grids[top])
           /\ \A j \in 1..Len(executed_orders) :
                 executed_orders[j].price # strategy.grids[top]
                     \/ executed_orders[j].type # "BUY"

\* What an order takes from the cash (BUY) or adds to it (SELL).
Notional(o) == FMul(o.price, o.amount)

\* A BUY needs the cash for price * amount plus the maker fee, a SELL the
\* position for its amount.
Acceptable(l, o) ==
    IF o.type = "BUY"
    THEN FGe(l.balance, FAdd(Notional(o), FMul(Notional(o), maker_fee)))
    ELSE FGe(l.position_amt, o.amount)

\* The ledger l after the orders from index k on, each applied in full if
\* acceptable and dropped if not; rejected counts the orders dropped.
RECURSIVE AllOrNothing(_, _, _, _)
AllOrNothing(l, orders, k, ts) ==
    IF k > Len(orders) THEN l
    ELSE LET o   == orders[k]
             fee == FMul(Notional(o), maker_fee)
             l1  == IF ~Acceptable(l, o)
                    THEN [l EXCEPT !.rejected = @ + 1]
                    ELSE IF o.type = "BUY"
                    THEN [l EXCEPT
                            !.balance = FSub(@, FAdd(Notional(o), fee)),
                            !.position_amt = FAdd(@, o.amount),
                            !.trade_log = Append(@,
                                LogEntry(ts, "GRID_BUY", o.price, o.amount, fee))]
                    ELSE [l EXCEPT
                            !.balance = FAdd(@, FSub(Notional(o), fee)),
                            !.position_amt = FSub(@, o.amount),
                            !.trade_log = Append(@,
                                LogEntry(ts, "GRID_SELL", o.price, o.amount, fee))]
         IN  AllOrNothing(l1, orders, k + 1, ts)

\* C15: each order check_execution returned is applied in full if the cash
\* (BUY) or the position (SELL) covers it and is dropped otherwise, leaving
\* cash, position and trade log as they were; the orders after a dropped
\* one are still processed, and the row records its portfolio value.
C15_AllOrNothing ==
    [][GridStep =>
        LET l == AllOrNothing([balance |-> balance, position_amt |-> position_amt,
                               trade_log |-> trade_log, rejected |-> 0],
                              executed_orders', 1, i)
        IN  /\ balance' = l.balance
            /\ position_amt' = l.position_amt
            /\ trade_log' = l.trade_log
            /\ Len(trade_log') + l.rejected = Len(trade_log) + Len(executed_orders')
            /\ Len(portfolio_values') = Len(portfolio_values) + 1
            /\ Last(portfolio_values') =
                   CurrentVal(balance', position_amt', row'.close)]_vars

\* On the row processed last the first order, a BUY, was dropped for lack
\* of cash and the second, a SELL, was applied; the row has its point.
C15_Witness ==
    /\ InGridRun
    /\ Len(executed_orders) = 2
    /\ executed_orders[1].type = "BUY"
    /\ executed_orders[2].type = "SELL"
    /\ LoggedOnLastRow = {Len(trade_log)}
    /\ Last(trade_log).type = "GRID_SELL"
    /\ Last(trade_log).price = executed_orders[2].price
    /\ FLt(FSub(balance, Notional(executed_orders[2])),
           Notional(executed_orders[1]))
    /\ maker_fee = Zero
    /\ Len(portfolio_values) = i

\* The number of occupied levels.
Occupied == Cardinality({k \in 1..Len(strategy.grids) : strategy.grid_status[k]})

\* C16: in a grid run the position held is amount_per_grid times the
\* number of occupied levels.
C16_OccupiedMeansHeld ==
    InGridRun =>
        position_amt = FMul(strategy.amount_per_grid, Exact(Occupied))

\* C17: a grid run starts (setup has returned, no row processed yet) with
\* every level unoccupied, also on a GridStrategy that an earlier run used.
C17_SetupClearsLevels ==
    (pc = "run_grid" /\ i = 0) =>
        \A k \in 1..Len(strategy.grids) : ~strategy.grid_status[k]

\* The entries of a trade log for the rows before row t.
Before(log, t) == SelectSeq(log, LAMBDA e : e.timestamp < t)

\* The current call has so far produced what the earlier call had produced
\* after as many rows.
SameAsEarlier ==
    /\ portfolio_values = SubSeq(earlier.portfolio_values, 1, i)
    /\ trade_log = Before(earlier.trade_log, i)

SignalTypes == RiskTypes \cup {"BUY", "SELL (SIGNAL)"}

GridTypes == {"GRID_BUY", "GRID_SELL"}

\* C19: run hands a strategy with a truthy is_grid to run_grid and any
\* other to run_signal, never to both; a grid run calls setup and
\* check_execution and never generate_signals, logs grid fills only, and
\* returns what it returns without overlays whatever overlays it is given;
\* a signal run calls generate_signals alone.
C19_OneEngine ==
    /\ (pc = "run_grid" => IsGrid(strategy))
    /\ (pc = "run_signal" => ~IsGrid(strategy))
    /\ (called # {} =>
          IF IsGrid(strategy)
          THEN /\ "setup" \in called
               /\ called \subseteq {"setup", "check_execution"}
               /\ \A k \in 1..Len(trade_log) : trade_log[k].type \in GridTypes
          ELSE /\ called = {"generate_signals"}
               /\ \A k \in 1..Len(trade_log) : trade_log[k].type \in SignalTypes)
    /\ (/\ earlier # None /\ IsGrid(strategy)
        /\ \A k \in 1..Len(earlier.handed.grids) : ~earlier.handed.grid_status[k])
       => SameAsEarlier

\* A grid run that was given all three overlays has returned what the run
\* without overlays had returned, fills included.
C19_Witness ==
    /\ earlier # None /\ IsGrid(strategy)
    /\ pc = "done" /\ n = MaxRerunBars
    /\ earlier.sl_pct = None /\ earlier.tp_pct = None /\ earlier.trailing_pct = None
    /\ sl_pct # None /\ tp_pct # None /\ trailing_pct # None
    /\ \A k \in 1..Len(earlier.handed.grids) : ~earlier.handed.grid_status[k]
    /\ Len(trade_log) >= 2
    /\ trade_log = earlier.trade_log
    /\ portfolio_values = earlier.portfolio_values
    /\ called = {"setup", "check_execution"}

\* C20: a call of run starts from cash = initial_balance, no position,
\* avg_entry_price 0, an empty trade log, an empty series and (signal
\* mode) highest_price_since_entry 0; and a second call with the frame,
\* the signals and the overlays of the first returns, row by row, what the
\* first returned.
C20_RunsStartAfresh ==
    /\ (pc # "idle" /\ i = 0 =>
          /\ balance = initial_balance
          /\ position_amt = Zero
          /\ avg_entry_price = Zero
          /\ trade_log = <<>>
          /\ portfolio_values = <<>>
          /\ (~IsGrid(strategy) => highest_price_since_entry = Zero))
    /\ (earlier # None /\ ~IsGrid(strategy) => SameAsEarlier)

\* The first call returned with a position open; the second has returned
\* the same series and the same trade log.
C20_Witness ==
    /\ earlier # None /\ ~IsGrid(strategy)
    /\ pc = "done" /\ n = MaxRerunBars
    /\ FGt(earlier.position_amt, Zero)
    /\ Len(trade_log) >= 1
    /\ trade_log = earlier.trade_log
    /\ portfolio_values = earlier.portfolio_values

\* The value of the trend series for row t of the frame, whose close is c:
\* NaN on the first rows, then the exponential mean of the closes.
TrendAt(t, c) ==
    IF t + 1 < EmaMinPeriods THEN NaN ELSE Mean(strategy, t, c)

\* C18: with the filter on, an unoccupied level the low of the row reaches
\* emits a BUY unless its price is below the trend value of that row, and
\* no level whose price is below the trend value of the row emits a BUY,
\* whatever index the frame handed to run has.
C18_NoBuyBelowTrend ==
    [][GridStep /\ strategy.use_ema_filter =>
        \A k \in 1..Len(strategy.grids) :
            LET below == BelowEma(strategy.grids[k], TrendAt(i, row'.close))
            IN  /\ (EmittedBuy(k) => ~below)
                /\ (/\ ~strategy.grid_status[k]
                    /\ FLe(row'.low, strategy.grids[k])
                    /\ ~below) => EmittedBuy(k)]_vars

\* ------------------------------------------------------------------
\* The fee of an entry
\* ------------------------------------------------------------------
\* The rate the entries of a type are charged: grid entries the maker fee,
\* the others the taker fee.
RateOf(type) ==
    IF type \in {"GRID_BUY", "GRID_SELL"} THEN maker_fee ELSE taker_fee

InUnit(v) == FGe(v, Zero) /\ FLe(v, One)

\* c is in [0, 1] and is what the argument v is clamped to.
ClampedFrom(v, c) ==
    /\ InUnit(c)
    /\ (v # NaN /\ FLt(v, Zero) => c = Zero)
    /\ (v # NaN /\ FGt(v, One) => c = One)
    /\ (v # NaN /\ InUnit(v) => c = v)

\* C23: whatever number the constructor is given, fill_ratio and
\* trade_fraction are in [0, 1] from construction on: 0 for an argument
\* below 0, 1 for one above 1, the argument itself for one inside; no
\* argument is rejected, and reset and run leave both as they are.
C23_ClampedForLife ==
    /\ ClampedFrom(given.fill_ratio, fill_ratio)
    /\ ClampedFrom(given.trade_fraction, trade_fraction)

\* A Backtest constructed with fill_ratio = -1 and trade_fraction = 2 has
\* run over rows and logged an entry, with fill_ratio 0 and
\* trade_fraction 1.
C23_Witness ==
    /\ FLt(given.fill_ratio, Zero) /\ FGt(given.trade_fraction, One)
    /\ fill_ratio = Zero /\ trade_fraction = One
    /\ pc = "done" /\ i > 0
    /\ Len(trade_log) >= 1

\* ------------------------------------------------------------------
\* Bars without a trade
\* ------------------------------------------------------------------
\* An iteration of the loop of either engine.
BarStep == pc \in {"run_signal", "run_grid"} /\ i' = i + 1

\* C27: in either mode a bar that appends nothing to the trade log leaves
\* the cash, the position and avg_entry_price as they were (no signal, an
\* EXIT while flat, a LONG_ENTRY while a position is held or with no cash
\* to spend, a grid bar whose orders are all rejected or absent), and the
\* point of the bar is still recorded.
C27_NoEntryNoChange ==
    [][BarStep /\ trade_log' = trade_log =>
        /\ UNCHANGED <<balance, position_amt, avg_entry_price>>
        /\ Len(portfolio_values') = Len(portfolio_values) + 1]_vars

\* On the row processed last, not the first, the grid was handed a SELL
\* and accepted no order; the cash and the position are what they were and
\* the row has its point.
C27_Witness ==
    /\ InGridRun
    /\ i >= 2
    /\ \E j \in 1..Len(executed_orders) : executed_orders[j].type = "SELL"
    /\ LoggedOnLastRow = {}
    /\ balance = initial_balance /\ position_amt = Zero
    /\ Len(portfolio_values) = i

\* ------------------------------------------------------------------
\* The order of the scan
\* ------------------------------------------------------------------
\* The level an order of this step belongs to: a BUY to the level it rests
\* at, a SELL to the level below the one it rests at.
LevelOf(o) ==
    LET k == CHOOSE k \in 1..Len(strategy.grids) : strategy.grids[k] = o.price
    IN  IF o.type = "BUY" THEN k ELSE k - 1

\* C28: the levels are in ascending order of price and check_execution
\* emits its orders in that order, at most one per level, so that a level
\* is not both bought and sold in one call; an occupied level with a level
\* above it whose price the high reaches emits a SELL at that price and
\* becomes unoccupied; the occupancy of a level changes only with a BUY
\* (to occupied) or a SELL (to unoccupied) of that level; the prices of
\* the levels stay what they are.
C28_AscendingOnePerLevel ==
    [][GridStep =>
        LET g == strategy.grids
            orders == executed_orders'
        IN  /\ \A k \in 1..(Len(g) - 1) : FLt(g[k], g[k + 1])
            /\ \A a, b \in 1..Len(orders) :
                  a < b => LevelOf(orders[a]) < LevelOf(orders[b])
            /\ \A k \in 1..Len(g) :
                  /\ ~(EmittedBuy(k) /\ EmittedSell(k))
                  /\ (/\ strategy.grid_status[k]
                      /\ k < Len(g)
                      /\ FGe(row'.high, g[k + 1]))
                     => EmittedSell(k) /\ ~strategy'.grid_status[k]
                  /\ (strategy.grid_status[k] # strategy'.grid_status[k] =>
                        IF strategy'.grid_status[k]
                        THEN EmittedBuy(k) ELSE EmittedSell(k))
            /\ strategy'.grids = g]_vars

\* One call emitted the BUY of the lowest level and, after it, the SELL of
\* the level above, which was bought on an earlier row: the lowest level is
\* occupied now, the one above is not.
C28_Witness ==
    /\ InGridRun
    /\ Len(executed_orders) = 2
    /\ executed_orders[1] = Order("BUY", strategy.grids[1], strategy.amount_per_grid)
    /\ executed_orders[2] = Order("SELL", strategy.grids[3], strategy.amount_per_grid)
    /\ strategy.grid_status[1] /\ ~strategy.grid_status[2]
    /\ \E a \in 1..Len(trade_log) :
          /\ trade_log[a].type = "GRID_BUY"
          /\ trade_log[a].price = strategy.grids[2]
          /\ trade_log[a].timestamp < i - 1

\* ------------------------------------------------------------------
\* highest_price_since_entry
\* ------------------------------------------------------------------
\* An iteration of the loop of run_signal.
SignalStepTaken == pc = "run_signal" /\ i' = i + 1

\* The iteration logged the BUY of an entry.
EntryStep ==
    /\ SignalStepTaken
    /\ Len(trade_log') = Len(trade_log) + 1
    /\ Last(trade_log').type = "BUY"

\* The greater of two prices.
FMax(a, b) == IF FGt(b, a) THEN b ELSE a

\* C29: in signal mode, while a position is held highest_price_since_entry
\* is at least avg_entry_price and never falls; the bar of an entry sets it
\* to the adjusted buy price, whatever it was before (the high of that bar
\* and the value left by an earlier position play no part); every later
\* bar on which the position is still held at its start raises it to the
\* high of the bar if that is greater, so that at the exit check it is the
\* maximum of the entry price and the highs of the bars since the entry.
C29_HighestSinceEntry ==
    /\ [](InSignalRun /\ FGt(position_amt, Zero) =>
            FGe(highest_price_since_entry, avg_entry_price))
    /\ [][EntryStep =>
            /\ highest_price_since_entry' = Last(trade_log').price
            /\ highest_price_since_entry' = avg_entry_price']_vars
    /\ [][SignalStepTaken /\ FGt(position_amt, Zero) =>
            /\ highest_price_since_entry' =
                  FMax(highest_price_since_entry, row'.high)
            /\ FGe(highest_price_since_entry', highest_price_since_entry)
            /\ avg_entry_price' = avg_entry_price]_vars

\* A first position, entered on row 0, was stopped out on row 1 by the
\* trailing stop at a price above the entry of the second position on
\* row 2: the high reached while the first was held is not the highest
\* price of the second, which is its entry price, below the high of its
\* own entry bar.
C29_Witness ==
    /\ InSignalRun
    /\ Len(trade_log) = 3
    /\ trade_log[1].type = "BUY"
    /\ trade_log[2].type = "SELL (TRAILING_STOP)"
    /\ trade_log[3].type = "BUY" /\ trade_log[3].timestamp = i - 1
    /\ FGt(position_amt, Zero)
    /\ highest_price_since_entry = trade_log[3].price
    /\ FGt(trade_log[2].price, highest_price_since_entry)
    /\ FGt(row.high, highest_price_since_entry)

\* ------------------------------------------------------------------
\* The ledger and the trade log
\* ------------------------------------------------------------------
BuyTypes == {"BUY", "GRID_BUY"}

\* The cash after the first k entries of the log q, starting from start:
\* less price * amount + fee for a buy, plus price * amount - fee for a
\* sell, summed in the order of the log.
RECURSIVE CashAfter(_, _, _)
CashAfter(start, q, k) ==
    IF k = 0 THEN start
    ELSE LET e == q[k]
             notional == FMul(e.price, e.amount)
             before == CashAfter(start, q, k - 1)
         IN  IF e.type \in BuyTypes
             THEN FSub(before, FAdd(notional, e.fee))
             ELSE FAdd(before, FSub(notional, e.fee))

\* The position after the first k entries of the log q.
RECURSIVE PositionAfter(_, _)
PositionAfter(q, k) ==
    IF k = 0 THEN Zero
    ELSE IF q[k].type \in BuyTypes
         THEN FAdd(PositionAfter(q, k - 1), q[k].amount)
         ELSE FSub(PositionAfter(q, k - 1), q[k].amount)

\* What an entry takes from the cash as a buy, adds to it as a sell, and
\* its amount.
Term(e, what) ==
    IF what = "debit" THEN FAdd(FMul(e.price, e.amount), e.fee)
    ELSE IF what = "credit" THEN FSub(FMul(e.price, e.amount), e.fee)
    ELSE e.amount

\* The sum of a term over the entries of a type in types among the first
\* k of q.
RECURSIVE SumOver(_, _, _, _)
SumOver(q, k, types, what) ==
    IF k = 0 THEN Zero
    ELSE IF q[k].type \in types
         THEN FAdd(SumOver(q, k - 1, types, what), Term(q[k], what))
         ELSE SumOver(q, k - 1, types, what)

SellTypes == RiskTypes \cup {"SELL (SIGNAL)", "GRID_SELL"}

\* The log only grows within a run, by entries of the bar being processed.
AppendOnly ==
    [][BarStep =>
        /\ Len(trade_log') >= Len(trade_log)
        /\ SubSeq(trade_log', 1, Len(trade_log)) = trade_log
        /\ \A k \in (Len(trade_log) + 1)..Len(trade_log') :
              trade_log'[k].timestamp = i]_vars

InBarOrder ==
    \A a, b \in 1..Len(trade_log) :
        a < b => trade_log[a].timestamp <= trade_log[b].timestamp

\* C30 as stated: in every state of a run of either engine the cash is
\* initial_balance less the sum of price * amount + fee over the buys
\* logged plus the sum of price * amount - fee over the sells logged, and
\* the position is the sum of the amounts bought less the sum of the
\* amounts sold; the log is append-only and in the order of the bars.
C30_LedgerIsGroupedSums ==
    /\ [](/\ balance =
                FAdd(FSub(initial_balance,
                          SumOver(trade_log, Len(trade_log), BuyTypes, "debit")),
                     SumOver(trade_log, Len(trade_log), SellTypes, "credit"))
          /\ position_amt =
                FSub(SumOver(trade_log, Len(trade_log), BuyTypes, "amount"),
                     SumOver(trade_log, Len(trade_log), SellTypes, "amount"))
          /\ InBarOrder)
    /\ AppendOnly

\* C30, amended: in every state of a run of either engine the cash is
\* initial_balance with the entries of the log applied one after the other
\* in the order of the log, a buy taking price * amount + fee and a sell
\* adding price * amount - fee, and the position is 0 with the amounts
\* added and taken in the same order; the log is append-only and in the
\* order of the bars.
C30_LedgerIsSumOfLog ==
    /\ [](/\ balance = CashAfter(initial_balance, trade_log, Len(trade_log))
          /\ position_amt = PositionAfter(trade_log, Len(trade_log))
          /\ InBarOrder)
    /\ AppendOnly

\* With a taker fee, a position was entered, part of it sold and, on the
\* row processed last, part of the rest: three entries with fees, a
\* position still open.
C30_Witness ==
    /\ InSignalRun
    /\ FGt(taker_fee, Zero)
    /\ Len(trade_log) = 3
    /\ trade_log[1].type = "BUY"
    /\ trade_log[2].type \notin BuyTypes
    /\ trade_log[3].type \notin BuyTypes
    /\ FGt(trade_log[3].fee, Zero)
    /\ FGt(position_amt, Zero)
    /\ balance # initial_balance

\* ------------------------------------------------------------------
\* Backtest.calculate_drawdown
\* ------------------------------------------------------------------
\* The longest series drawn value by value.
MaxSeries == 3

\* Values of the series handed to calculate_drawdown.
DrawdownValues == {Exact(80), Exact(90), Exact(95), Exact(100), Exact(120)}

Example == <<Exact(100), Exact(90), Exact(95), Exact(80), Exact(120)>>

Series ==
    UNION { [1..len -> DrawdownValues] : len \in 0..MaxSeries } \cup {Example}

\* The Backtest whose method is called; the method does not read it.
DefaultBacktest == New(Args(Exact(100), Zero, Zero, Zero, Zero, One, One))

\* calculate_drawdown(series) has been called and is at its first line.
DrawdownInit ==
    /\ DefaultBacktest
    /\ \E series \in Series :
          drawdown = [portfolio_values |-> series, at |-> "called", k |-> 0,
                      peak |-> None, max_dd |-> None, returned |-> None]
    /\ trader = None
    /\ settings = None

\* NextPeak that keeps the first value as the peak.
FirstValueAsPeak(peak, value) == peak

\* Lines 59-60.
NextPeak(peak, value) == IF FGt(value, peak) THEN value ELSE peak

\* Lines 52-53: an empty series.
DrawdownOfNothing ==
    /\ drawdown.at = "called"
    /\ drawdown.portfolio_values = <<>>
    /\ drawdown' = [drawdown EXCEPT !.at = "returned", !.returned = Zero]
    /\ UNCHANGED <<backtest, trader, settings>>

\* Lines 55-56.
DrawdownStart ==
    /\ drawdown.at = "called"
    /\ drawdown.portfolio_values # <<>>
    /\ drawdown' = [drawdown EXCEPT !.at = "loop",
                                    !.peak = drawdown.portfolio_values[1],
                                    !.max_dd = Zero]
    /\ UNCHANGED <<backtest, trader, settings>>

\* Lines 58-64: one iteration of the loop.
DrawdownValue ==
    /\ drawdown.at = "loop"
    /\ drawdown.k < Len(drawdown.portfolio_values)
    /\ LET value == drawdown.portfolio_values[drawdown.k + 1]
           peak == NextPeak(drawdown.peak, value)
           dd == FDiv(FSub(peak, value), peak)
       IN  drawdown' = [drawdown EXCEPT
                            !.k = @ + 1,
                            !.peak = peak,
                            !.max_dd = IF FGt(dd, @) THEN dd ELSE @]
    /\ UNCHANGED <<backtest, trader, settings>>

\* Line 66.
DrawdownReturn ==
    /\ drawdown.at = "loop"
    /\ drawdown.k = Len(drawdown.portfolio_values)
    /\ drawdown' = [drawdown EXCEPT
                        !.at = "returned",
                        !.returned = FMul(drawdown.max_dd, Exact(100))]
    /\ UNCHANGED <<backtest, trader, settings>>

DrawdownNext ==
    DrawdownOfNothing \/ DrawdownStart \/ DrawdownValue \/ DrawdownReturn

DrawdownSpec == DrawdownInit /\ [][DrawdownNext]_vars

\* The greatest of the values s[1..m].
PeakAt(s, m) == CHOOSE x \in {s[j] : j \in 1..m} : \A j \in 1..m : FGe(x, s[j])

\* (peak_m - value_m) / peak_m
DrawdownAt(s, m) == FDiv(FSub(PeakAt(s, m), s[m]), PeakAt(s, m))

\* The greatest drawdown over s[1..m].
MaxDrawdown(s, m) ==
    CHOOSE x \in {DrawdownAt(s, j) : j \in 1..m} :
        \A j \in 1..m : FGe(x, DrawdownAt(s, j))

NonDecreasing(s) == \A j \in 1..(Len(s) - 1) : FLe(s[j], s[j + 1])

\* C21: calculate_drawdown(series) returns 100 times the greatest of
\* (peak_i - value_i) / peak_i, peak_i being the greatest of the values up
\* to and including index i; 0 for an empty series, 0 for a series that
\* never falls, and 20 for [100, 90, 95, 80, 120].
C21_DrawdownIsMaxFallFromPeak ==
    (drawdown # None /\ drawdown.at = "returned") =>
        LET s == drawdown.portfolio_values
        IN  /\ drawdown.returned =
                  IF s = <<>> THEN Zero
                  ELSE FMul(Exact(100), MaxDrawdown(s, Len(s)))
            /\ (NonDecreasing(s) => drawdown.returned = Zero)
            /\ (s = Example => drawdown.returned = Exact(20))

\* The call on [100, 90, 95, 80, 120] has returned, after a peak of 120
\* reached past the trough.
C21_Witness ==
    /\ drawdown # None
    /\ drawdown.at = "returned"
    /\ drawdown.portfolio_values = Example
    /\ drawdown.peak = Exact(120)
    /\ drawdown.returned = Exact(20)

\* ------------------------------------------------------------------
\* LiveTrader (src/live_trader.py)
\* ------------------------------------------------------------------
\* Calls made on one LiveTrader: iterations of run and direct calls.
MaxLiveSteps == 2

\* Rows of the longest signals table.
MaxCandles == 2

LiveOverlays == { <<None, None, None>>, <<Lit(1, 4), Half, Lit(1, 4)>> }

\* taker_fee_pct and slippage_bps.
LiveCosts == { <<Zero, Zero>>, <<One, Exact(100)>> }

LiveArg(o, test_mode, c) ==
    [amount |-> One, sl_pct |-> o[1], tp_pct |-> o[2], trailing_pct |-> o[3],
     test_mode |-> test_mode, virtual_balance |-> Exact(20),
     taker_fee_pct |-> c[1], slippage_bps |-> c[2]]

\* Constructor arguments; live mode takes its fills from the exchange and
\* reads neither taker_fee nor slippage_rate.
LiveArgs ==
    { LiveArg(o, TRUE, c) : o \in LiveOverlays, c \in LiveCosts }
    \cup { LiveArg(o, FALSE, <<Zero, Zero>>) : o \in LiveOverlays }

\* Prices the ticker shows.
LivePrices == {Lo, Mid, Hi}

\* Values of the signal column: 1.0, -1.0, 0.0.
LiveSignals == {One, Exact(-1), Zero}

\* What generate_signals returns: the value of the signal column of each
\* row, oldest first, or a table without that column.
Tables ==
    { [has_signal |-> TRUE, rows |-> q] :
        q \in UNION { [1..len -> LiveSignals] : len \in 0..MaxCandles } }
    \cup { [has_signal |-> FALSE, rows |-> <<Zero, Zero>>] }

Sides == {"buy", "sell", "hold"}

\* create_market_order returns or raises.
Outcomes == {"ok", "raise"}

\* What the model keeps of a call that does not belong to the LiveTrader.
NoCall ==
    [op |-> "", side |-> "", price |-> None, signals |-> None,
     reached |-> "", latest |-> None, executed |-> <<>>, returned |-> None]

\* LiveTrader(strategy, **a); sent are the orders handed to the exchange.
NewLiveTrader(a) ==
    [amount |-> a.amount,
     sl_pct |-> a.sl_pct, tp_pct |-> a.tp_pct, trailing_pct |-> a.trailing_pct,
     test_mode |-> a.test_mode,
     taker_fee |-> FDiv(a.taker_fee_pct, Exact(100)),
     slippage_rate |-> FDiv(a.slippage_bps, Exact(10000)),
     position |-> None,
     highest_price |-> Zero,
     virtual_balance |-> a.virtual_balance,
     virtual_btc |-> Zero,
     total_profit |-> Zero,
     sent |-> <<>>,
     steps |-> 0,
     last |-> NoCall]

LiveInit ==
    /\ DefaultBacktest
    /\ drawdown = None
    /\ \E a \in LiveArgs : trader = NewLiveTrader(a)
    /\ settings = None

\* LiveTrader._apply_slippage
TraderApplySlippage(t, price, side) ==
    IF side = "buy" THEN FMul(price, FAdd(One, t.slippage_rate))
    ELSE IF side = "sell" THEN FMul(price, FSub(One, t.slippage_rate))
    ELSE price

\* None, 0 and 0.0 are falsy.
Truthy(v) == v # None /\ v # Zero

\* _get_latest_confirmed_signal that reads the row still forming.
LastRowSignal(signals) ==
    IF Len(signals.rows) < 2 \/ ~signals.has_signal THEN None
    ELSE signals.rows[Len(signals.rows)]

\* LiveTrader._get_latest_confirmed_signal: signals.iloc[-2]["signal"].
GetLatestConfirmedSignal(signals) ==
    IF Len(signals.rows) < 2 \/ ~signals.has_signal THEN None
    ELSE signals.rows[Len(signals.rows) - 1]

Fill(price, amount, fee) == [price |-> price, amount |-> amount, fee |-> fee]

\* LiveTrader.execute_order(side, price) on the trader t; ticker is what
\* get_current_price returns, outcome what create_market_order does.
ExecuteOrder(t, side, price, ticker, outcome) ==
    LET current_price == IF Truthy(price) THEN price ELSE ticker
    IN  IF t.test_mode /\ side = "buy"
        THEN LET exec_price == TraderApplySlippage(t, current_price, "buy")
                 cost == FMul(exec_price, t.amount)
                 fee == FMul(cost, t.taker_fee)
                 total_cost == FAdd(cost, fee)
             IN  IF FGe(t.virtual_balance, total_cost)
                 THEN [trader |-> [t EXCEPT
                                     !.virtual_balance = FSub(@, total_cost),
                                     !.virtual_btc = FAdd(@, t.amount)],
                       returned |-> Fill(exec_price, t.amount, fee)]
                 ELSE [trader |-> t, returned |-> None]
        ELSE IF t.test_mode /\ side = "sell"
        THEN LET exec_price == TraderApplySlippage(t, current_price, "sell")
                 revenue == FMul(exec_price, t.amount)
                 fee == FMul(revenue, t.taker_fee)
                 net_revenue == FSub(revenue, fee)
                 pnl == FSub(FSub(FMul(FSub(exec_price, t.position.entry_price),
                                       t.amount),
                                  t.position.entry_fee),
                             fee)
             IN  IF FGe(t.virtual_btc, FMul(t.amount, Lit(99, 100)))
                 THEN [trader |-> [t EXCEPT
                                     !.virtual_balance = FAdd(@, net_revenue),
                                     !.virtual_btc = FSub(@, t.amount),
                                     !.total_profit =
                                         IF t.position # None
                                         THEN FAdd(@, pnl) ELSE @],
                       returned |-> Fill(exec_price, t.amount, fee)]
                 ELSE [trader |-> t, returned |-> None]
        ELSE [trader |-> [t EXCEPT !.sent = Append(@, side)],
              returned |-> IF outcome = "ok"
                           THEN Fill(ticker, t.amount, Zero) ELSE None]

\* LiveTrader.check_risk_management(current_price); executed are the
\* sides execute_order was called with, returned is what the last of
\* those calls returned.
CheckRiskManagement(t, current_price, ticker, outcome) ==
    IF t.position = None
    THEN [trader |-> t, closed |-> FALSE, executed |-> <<>>, returned |-> None]
    ELSE LET entry_price == t.position.entry_price
             t1 == [t EXCEPT !.highest_price =
                        IF FGt(current_price, @) THEN current_price ELSE @]
             hit == \/ /\ Truthy(t.sl_pct)
                       /\ FLe(current_price,
                              FMul(entry_price, FSub(One, t.sl_pct)))
                    \/ /\ Truthy(t.tp_pct)
                       /\ FGe(current_price,
                              FMul(entry_price, FAdd(One, t.tp_pct)))
                    \/ /\ Truthy(t.trailing_pct)
                       /\ FLe(current_price,
                              FMul(t1.highest_price, FSub(One, t.trailing_pct)))
             sold == ExecuteOrder(t1, "sell", current_price, ticker, outcome)
         IN  IF hit
             THEN [trader |-> [sold.trader EXCEPT !.position = None],
                   closed |-> TRUE, executed |-> <<"sell">>,
                   returned |-> sold.returned]
             ELSE [trader |-> t1, closed |-> FALSE, executed |-> <<>>,
                   returned |-> None]

\* Lines 189-239: one pass of the loop of run, with the price the ticker
\* shows and what fetch_recent_data and generate_signals give (None when
\* the fetch fails).  risk is what check_risk_management(current_price)
\* gives on t.  last keeps what the pass saw, the sides it called
\* execute_order with and what the call returned.
Pass(t, current_price, data, ticker, outcome, risk) ==
    LET t1 == risk.trader
        latest == GetLatestConfirmedSignal(data)
        buy == ExecuteOrder(t1, "buy", current_price, ticker, outcome)
        sell == ExecuteOrder(t1, "sell", current_price, ticker, outcome)
        seen(reached, l, executed, returned, t2) ==
            [t2 EXCEPT !.last = [NoCall EXCEPT !.op = "run",
                                               !.price = current_price,
                                               !.signals = data,
                                               !.reached = reached,
                                               !.latest = l,
                                               !.executed = executed,
                                               !.returned = returned]]
    IN  IF risk.closed THEN seen("risk", None, risk.executed, risk.returned, t1)
        ELSE IF data = None THEN seen("no data", None, <<>>, None, t1)
        ELSE IF latest = None THEN seen("waiting", None, <<>>, None, t1)
        ELSE IF latest = One /\ t1.position = None
        THEN seen("signal", latest, <<"buy">>, buy.returned,
                  IF buy.returned # None
                  THEN [buy.trader EXCEPT
                           !.position = [amount |-> t.amount,
                                         entry_price |-> buy.returned.price,
                                         entry_fee |-> buy.returned.fee],
                           !.highest_price = buy.returned.price]
                  ELSE buy.trader)
        ELSE IF latest = Exact(-1) /\ t1.position # None
        THEN seen("signal", latest, <<"sell">>, sell.returned,
                  [sell.trader EXCEPT !.position = None])
        ELSE seen("signal", latest, <<>>, None, t1)

\* The trader after one more pass of the loop of run, in which the ticker
\* shows current_price first and ticker when execute_order asks again, and
\* generate_signals gives one of tables.
PassOn(current_price, ticker, outcome, tables) ==
    \E risk \in {CheckRiskManagement(trader, current_price, ticker, outcome)} :
       \E data \in tables :
          trader' = [Pass(trader, current_price, data, ticker, outcome, risk)
                        EXCEPT !.steps = @ + 1]

\* One pass of the loop of run.  In test mode the loop, which orders "buy"
\* and "sell" at the truthy price of the ticker, reads neither the ticker
\* again nor the exchange.
Iteration ==
    /\ trader.steps < MaxLiveSteps
    /\ \E current_price \in LivePrices :
          \E ticker \in IF trader.test_mode THEN {current_price} ELSE LivePrices,
             outcome \in IF trader.test_mode THEN {"ok"} ELSE Outcomes :
             PassOn(current_price, ticker, outcome, Tables \cup {None})
    /\ UNCHANGED <<backtest, drawdown, settings>>

\* A call of execute_order from outside the loop.
CallExecuteOrder ==
    /\ trader.steps < MaxLiveSteps
    /\ \E side \in Sides, price \in LivePrices \cup {None},
          ticker \in LivePrices, outcome \in Outcomes :
          /\ (Truthy(price) /\ trader.test_mode /\ side \in {"buy", "sell"}) =>
                (ticker = price /\ outcome = "ok")
          /\ LET res == ExecuteOrder(trader, side, price, ticker, outcome)
             IN  trader' = [res.trader EXCEPT
                               !.steps = @ + 1,
                               !.last = [NoCall EXCEPT !.op = "execute_order",
                                                       !.side = side,
                                                       !.price = price,
                                                       !.returned = res.returned]]
    /\ UNCHANGED <<backtest, drawdown, settings>>

\* A call of _get_latest_confirmed_signal from outside the loop.
CallLatestConfirmedSignal ==
    /\ trader.steps < MaxLiveSteps
    /\ \E data \in Tables :
          trader' = [trader EXCEPT
                        !.steps = @ + 1,
                        !.last = [NoCall EXCEPT
                                     !.op = "_get_latest_confirmed_signal",
                                     !.signals = data,
                                     !.returned = GetLatestConfirmedSignal(data)]]
    /\ UNCHANGED <<backtest, drawdown, settings>>

LiveNext == Iteration \/ CallExecuteOrder \/ CallLatestConfirmedSignal

LiveSpec == LiveInit /\ [][LiveNext]_vars

\* A call made on the LiveTrader: a pass of the loop of run ("run") or a
\* direct call of the method op.
LiveStep(op) == trader'.steps = trader.steps + 1 /\ trader'.last.op = op

\* The signal of the row before the last, None for a table of fewer than
\* two rows or without the column.
SecondLast(signals) ==
    IF signals.has_signal /\ Len(signals.rows) >= 2
    THEN Head(SubSeq(signals.rows, Len(signals.rows) - 1, Len(signals.rows)))
    ELSE None

\* The pass handed signals to _get_latest_confirmed_signal.
AskedForSignal == LiveStep("run") /\ trader'.last.reached \in {"waiting", "signal"}

\* C24: _get_latest_confirmed_signal returns the signal of the row before
\* the last of the signals table, never that of the last row, and None for
\* a table of fewer than two rows or without a signal column; a pass of
\* the trading loop in which it returns None calls execute_order for no
\* side, hands the exchange nothing and leaves the virtual balances and
\* the position as they were.
C24_ConfirmedSignalOnly ==
    [][/\ (LiveStep("_get_latest_confirmed_signal") =>
              trader'.last.returned = SecondLast(trader'.last.signals))
       /\ (AskedForSignal =>
              trader'.last.latest = SecondLast(trader'.last.signals))
       /\ (AskedForSignal /\ SecondLast(trader'.last.signals) = None =>
              /\ trader'.last.executed = <<>>
              /\ trader'.sent = trader.sent
              /\ trader'.virtual_balance = trader.virtual_balance
              /\ trader'.virtual_btc = trader.virtual_btc
              /\ trader'.position = trader.position)]_vars

\* A first pass saw 1.0 on the row before the last and -1.0 on the last
\* row and bought; the next pass saw a table of one row, a -1.0, and did
\* nothing: the position is still open.
C24_Witness ==
    /\ trader # None
    /\ trader.test_mode
    /\ trader.steps = 2
    /\ trader.last.op = "run"
    /\ trader.last.reached = "waiting"
    /\ trader.last.signals = [has_signal |-> TRUE, rows |-> <<Exact(-1)>>]
    /\ trader.last.executed = <<>>
    /\ trader.position # None
    /\ trader.virtual_btc = trader.amount

\* C25: in test mode execute_order("buy", p) fills at e = p * (1 +
\* slippage_rate): with virtual_balance >= e * amount * (1 + taker_fee)
\* the balance falls by that total, virtual_btc rises by amount and the
\* fill at e for amount is returned, otherwise None is returned and both
\* stay; execute_order("sell", p) fills at e = p * (1 - slippage_rate): a
\* fill adds e * amount * (1 - taker_fee) to the balance and takes amount
\* from virtual_btc, a rejection returns None and leaves both; and no
\* order reaches the exchange in test mode.
C25_TestModeFills ==
    [][(trader'.steps = trader.steps + 1 /\ trader.test_mode) =>
        LET last == trader'.last
            p == last.price
            direct == last.op = "execute_order" /\ p # None
            same == /\ trader'.virtual_balance = trader.virtual_balance
                    /\ trader'.virtual_btc = trader.virtual_btc
        IN  /\ (direct /\ last.side = "buy") =>
                  LET e == FMul(p, FAdd(One, trader.slippage_rate))
                      total == FMul(FMul(e, trader.amount),
                                    FAdd(One, trader.taker_fee))
                  IN  IF FGe(trader.virtual_balance, total)
                      THEN /\ trader'.virtual_balance =
                                  FSub(trader.virtual_balance, total)
                           /\ trader'.virtual_btc =
                                  FAdd(trader.virtual_btc, trader.amount)
                           /\ last.returned # None
                           /\ last.returned.price = e
                           /\ last.returned.amount = trader.amount
                      ELSE last.returned = None /\ same
            /\ (direct /\ last.side = "sell") =>
                  LET e == FMul(p, FSub(One, trader.slippage_rate))
                      net == FMul(FMul(e, trader.amount),
                                  FSub(One, trader.taker_fee))
                  IN  IF last.returned # None
                      THEN /\ trader'.virtual_balance =
                                  FAdd(trader.virtual_balance, net)
                           /\ trader'.virtual_btc =
                                  FSub(trader.virtual_btc, trader.amount)
                      ELSE same
            /\ trader'.sent = trader.sent]_vars

\* ------------------------------------------------------------------
\* src/config.py
\* ------------------------------------------------------------------
\* Calls of load_config and _deep_merge.
MaxConfigs == 2

\* Assignments a caller makes to the configs it was returned.
MaxWrites == 1

\* A JSON value is a number, [id |-> <<>>, items |-> <<>>, v |-> n], or a
\* dict, whose id tells the object it is and whose items map its keys to
\* values.  Two dicts with the same id are one object.
Number(num) == [id |-> <<>>, items |-> <<>>, v |-> num]

Dict(id, items) == [id |-> id, items |-> items, v |-> 0]

IsDict(x) == x.id # <<>>

\* The dict d written as a literal or parsed by json.load: new objects,
\* named by where they are.
RECURSIVE NewObjects(_, _)
NewObjects(x, id) ==
    IF ~IsDict(x) THEN x
    ELSE Dict(id, [k \in DOMAIN x.items |->
                       NewObjects(x.items[k], Append(id, k))])

\* x without the identity of its objects.
Plain(x) == NewObjects(x, <<"dict">>)

\* DEFAULT_CONFIG as the module defines it, cut down to two sections.
Defaults ==
    NewObjects(
        Dict(<<"dict">>,
             [backtest |-> Dict(<<"dict">>,
                                [fill_ratio |-> Number(1),
                                 slippage_bps |-> Number(5)]),
              live |-> Dict(<<"dict">>, [interval_sec |-> Number(60)])]),
        <<"DEFAULT_CONFIG">>)

\* The contents of config.json a user may have written.
Files ==
    { Dict(<<"dict">>, <<>>),
      Dict(<<"dict">>, [backtest |-> Dict(<<"dict">>, [fill_ratio |-> Number(0)])]),
      Dict(<<"dict">>, [backtest |-> Dict(<<"dict">>, [taker_fee_pct |-> Number(7)]),
                        mode |-> Number(2)]),
      Dict(<<"dict">>, [backtest |-> Dict(<<"dict">>, <<>>),
                        live |-> Dict(<<"dict">>, [interval_sec |-> Number(5)])]),
      Dict(<<"dict">>, [backtest |-> Number(3)]),
      Dict(<<"dict">>,
           [live |-> Dict(<<"dict">>,
                          [interval_sec |-> Dict(<<"dict">>,
                                                 [night |-> Number(9)])])]) }

\* The module after import: DEFAULT_CONFIG, and nothing returned yet.
\* Each returned config is kept with the file it came from (None for a
\* path that does not exist), as it was returned and as it is now.
ConfigInit ==
    /\ DefaultBacktest
    /\ drawdown = None
    /\ trader = None
    /\ settings = [DEFAULT_CONFIG |-> Defaults, configs |-> <<>>,
                   loads |-> 0, writes |-> 0]

\* deepcopy that hands back its argument.
SameObject(tag, x) == x

\* deepcopy(x): the same value in new objects; tag names the call.
RECURSIVE DeepCopy(_, _)
DeepCopy(tag, x) ==
    IF ~IsDict(x) THEN x
    ELSE Dict(tag \o x.id, [k \in DOMAIN x.items |-> DeepCopy(tag, x.items[k])])

\* _deep_merge(base, override); tag names the call.
RECURSIVE DeepMerge(_, _, _)
DeepMerge(tag, base, override) ==
    LET merged == DeepCopy(tag, base)
    IN  [merged EXCEPT !.items =
            [key \in DOMAIN merged.items \cup DOMAIN override.items |->
                IF key \in DOMAIN override.items
                THEN LET value == override.items[key]
                     IN  IF /\ IsDict(value)
                            /\ key \in DOMAIN merged.items
                            /\ IsDict(merged.items[key])
                         THEN DeepMerge(Append(tag, key), merged.items[key], value)
                         ELSE value
                ELSE merged.items[key]]]

\* load_config(path): file is what json.load reads at path, None when
\* nothing exists there; g numbers the call.
LoadConfigOf(file, g) ==
    LET config_ == DeepCopy(<<"load", ToString(g)>>, settings.DEFAULT_CONFIG)
        user_config == NewObjects(file, <<"json", ToString(g)>>)
    IN  IF file = None THEN config_
        ELSE DeepMerge(<<"merge", ToString(g)>>, config_, user_config)

\* The dicts x holds, itself included.
RECURSIVE Objects(_)
Objects(x) ==
    IF ~IsDict(x) THEN {}
    ELSE {x} \cup UNION { Objects(x.items[k]) : k \in DOMAIN x.items }

\* x after the objects in written have been assigned to: an object of x
\* that is one of them has their items.
RECURSIVE Seen(_, _)
Seen(x, written) ==
    IF ~IsDict(x) THEN x
    ELSE IF \E o \in written : o.id = x.id
    THEN CHOOSE o \in written : o.id = x.id
    ELSE [x EXCEPT !.items = [k \in DOMAIN x.items |-> Seen(x.items[k], written)]]

\* The module and the configs returned earlier after a call has built the
\* config r from file.
ConfigReturned(file, r) ==
    [settings EXCEPT
        !.DEFAULT_CONFIG = Seen(@, Objects(r)),
        !.configs = Append([c \in DOMAIN @ |->
                               [@[c] EXCEPT !.config = Seen(@, Objects(r))]],
                           [file |-> file, returned |-> r, config |-> r]),
        !.loads = @ + 1]

\* A call of load_config.
LoadConfig ==
    /\ settings.loads < MaxConfigs
    /\ \E file \in Files \cup {None} :
          settings' = ConfigReturned(file, LoadConfigOf(file, settings.loads + 1))
    /\ UNCHANGED <<backtest, drawdown, trader>>

\* A call _deep_merge(DEFAULT_CONFIG, override).
CallDeepMerge ==
    /\ settings.loads < MaxConfigs
    /\ \E file \in Files :
          LET g == settings.loads + 1
              override == NewObjects(file, <<"json", ToString(g)>>)
          IN  settings' =
                 ConfigReturned(file, DeepMerge(<<"merge", ToString(g)>>,
                                           settings.DEFAULT_CONFIG, override))
    /\ UNCHANGED <<backtest, drawdown, trader>>

\* The caller assigns to a key of a dict of a config it was returned.
Assign ==
    /\ settings.writes < MaxWrites
    /\ \E c \in DOMAIN settings.configs :
          \E o \in Objects(settings.configs[c].config) :
             \E key \in DOMAIN o.items \cup {"added"} :
                LET w == [o EXCEPT !.items =
                             [k \in DOMAIN o.items \cup {key} |->
                                 IF k = key THEN Number(99) ELSE o.items[k]]]
                IN  settings' =
                       [settings EXCEPT
                           !.DEFAULT_CONFIG = Seen(@, {w}),
                           !.configs = [d \in DOMAIN @ |->
                                  [@[d] EXCEPT !.config = Seen(@, {w})]],
                           !.writes = @ + 1]
    /\ UNCHANGED <<backtest, drawdown, trader>>

ConfigNext == LoadConfig \/ CallDeepMerge \/ Assign

ConfigSpec == ConfigInit /\ [][ConfigNext]_vars

\* The keys of x at every depth, each as the path of keys leading to it.
RECURSIVE PathsOf(_)
PathsOf(x) ==
    IF ~IsDict(x) THEN {}
    ELSE UNION { {<<k>>} \cup { <<k>> \o q : q \in PathsOf(x.items[k]) } :
                 k \in DOMAIN x.items }

\* The value x has at the path p.
RECURSIVE At(_, _)
At(x, p) == IF p = <<>> THEN x ELSE At(x.items[Head(p)], Tail(p))

\* The key at p, given by the user in u, has the user's value in r: the
\* value itself, or for a dict given where the default d has a dict, a
\* dict (whose keys are keys at a greater depth).
TakesUserValue(u, d, r, p) ==
    /\ p \in PathsOf(r)
    /\ IF IsDict(At(u, p)) /\ p \in PathsOf(d) /\ IsDict(At(d, p))
       THEN IsDict(At(r, p))
       ELSE Plain(At(r, p)) = Plain(At(u, p))

KeepsDefault(d, r, p) ==
    p \in PathsOf(r) /\ Plain(At(r, p)) = Plain(At(d, p))

\* The user gave a number for a key above p.
Replaced(u, p) ==
    \E m \in 1..(Len(p) - 1) :
        SubSeq(p, 1, m) \in PathsOf(u) /\ ~IsDict(At(u, SubSeq(p, 1, m)))

\* load_config of a path where nothing exists returns the defaults.
DefaultsWhenMissing ==
    \A c \in DOMAIN settings.configs :
        settings.configs[c].file = None =>
            Plain(settings.configs[c].returned) = Plain(Defaults)

\* C26 as stated: load_config returns the defaults when the file is
\* missing; with a user file every key the user gave, at any depth, has
\* the user's value and every default key the user did not give has its
\* default value; DEFAULT_CONFIG is what it was at import whatever
\* load_config, _deep_merge and the callers that assign to a returned
\* config have done.
C26_MergeKeepsEveryDefault ==
    settings # None =>
        /\ settings.DEFAULT_CONFIG = Defaults
        /\ DefaultsWhenMissing
        /\ \A c \in DOMAIN settings.configs :
              LET u == settings.configs[c].file
                  r == settings.configs[c].returned
              IN  u # None =>
                     /\ \A p \in PathsOf(u) : TakesUserValue(u, Defaults, r, p)
                     /\ \A p \in PathsOf(Defaults) \ PathsOf(u) :
                           KeepsDefault(Defaults, r, p)

\* C26, amended: as above, except that a default key the user did not
\* give keeps its default value unless the user gave a value that is not
\* a dict for a key above it, which then stands in place of the whole
\* default dict.
C26_MergeKeepsDefaultsNotReplaced ==
    settings # None =>
        /\ settings.DEFAULT_CONFIG = Defaults
        /\ DefaultsWhenMissing
        /\ \A c \in DOMAIN settings.configs :
              LET u == settings.configs[c].file
                  r == settings.configs[c].returned
              IN  u # None =>
                     /\ \A p \in PathsOf(u) : TakesUserValue(u, Defaults, r, p)
                     /\ \A p \in PathsOf(Defaults) \ PathsOf(u) :
                           IF Replaced(u, p)
                           THEN p \notin PathsOf(r)
                           ELSE KeepsDefault(Defaults, r, p)

\* load_config has merged a file that gives backtest.fill_ratio alone; the
\* caller has since assigned to backtest.slippage_bps of the config it was
\* returned, and DEFAULT_CONFIG still has its own.
C26_Witness ==
    /\ settings # None
    /\ \E c \in DOMAIN settings.configs :
          LET u == settings.configs[c].file
              r == settings.configs[c].returned
              now == settings.configs[c].config
          IN  /\ u # None
              /\ PathsOf(u) = {<<"backtest">>, <<"backtest", "fill_ratio">>}
              /\ At(r, <<"backtest", "fill_ratio">>) = Number(0)
              /\ At(r, <<"backtest", "slippage_bps">>) = Number(5)
              /\ At(r, <<"live", "interval_sec">>) = Number(60)
              /\ <<"backtest", "slippage_bps">> \in PathsOf(now)
              /\ At(now, <<"backtest", "slippage_bps">>) = Number(99)
    /\ At(settings.DEFAULT_CONFIG, <<"backtest", "slippage_bps">>) = Number(5)

\* ------------------------------------------------------------------
\* The order of the entries of the log in signal mode
\* ------------------------------------------------------------------
\* The kinds of SELL run_signal logs.
SignalSellTypes == RiskTypes \cup {"SELL (SIGNAL)"}

\* Every fill is complete and an entry has a budget.
FullFills == fill_ratio = One /\ FGt(trade_fraction, Zero)

\* The log q is BUY, SELL, BUY, SELL, ...
Alternating(q) ==
    \A k \in 1..Len(q) :
        IF k % 2 = 1 THEN q[k].type = "BUY" ELSE q[k].type \in SignalSellTypes

PartialFills == FGt(fill_ratio, Zero) /\ FLt(fill_ratio, One)

Buys(q) == { k \in 1..Len(q) : q[k].type = "BUY" }

Sells(q) == { j \in 1..Len(q) : q[j].type = "SELL" }

\* The levels that are occupied and hold a resting sell the row r reaches:
\* levels with a next-higher level at or below the high of r.
Due(st, r) ==
    { k \in 1..(Len(st.grids) - 1) :
        st.grid_status[k] /\ FGe(r.high, st.grids[k + 1]) }

\* C33: the highest level of the ladder (index grid_num), once occupied,
\* stays occupied in every later call of check_execution of the run and
\* emits no order, however high the row reaches; the SELL orders of a
\* call are exactly one for every level below the highest that is
\* occupied at the start of the call and whose next-higher level's price
\* is at or below the high of the row, and each of those levels is
\* unoccupied after the call.
C33_TopLevelKeepsItsPosition ==
    [][GridStep =>
        LET g == strategy.grids
            top == Len(g)
            orders == executed_orders'
        IN  /\ top = strategy.grid_num + 1
            /\ (strategy.grid_status[top] =>
                    /\ strategy'.grid_status[top]
                    /\ ~EmittedBuy(top))
            /\ \A j \in Sells(orders) :
                  \E k \in Due(strategy, row') : orders[j].price = g[k + 1]
            /\ Cardinality(Sells(orders)) = Cardinality(Due(strategy, row'))
            /\ \A k \in Due(strategy, row') :
                  EmittedSell(k) /\ ~strategy'.grid_status[k]]_vars

\* The highest level was bought on an earlier row and is still occupied
\* after a row whose high reached its price; on that row the level below
\* it, occupied too, was sold at the price of the highest level.
C33_Witness ==
    /\ InGridRun
    /\ LET top == Len(strategy.grids)
       IN  /\ strategy.grid_status[top]
           /\ FGe(row.high, strategy.grids[top])
           /\ \E a \in 1..Len(trade_log) :
                 /\ trade_log[a].type = "GRID_BUY"
                 /\ trade_log[a].price = strategy.grids[top]
                 /\ trade_log[a].timestamp < i - 1
           /\ ~strategy.grid_status[top - 1]
           /\ Sells(executed_orders) # {}
           /\ \A j \in Sells(executed_orders) :
                 executed_orders[j].price = strategy.grids[top]

\* ------------------------------------------------------------------
\* Two Backtests that differ in what run_grid does not read, each handed
\* the same frame and a GridStrategy made with the same arguments
\* ------------------------------------------------------------------
TwinArgs ==
    { Args(Exact(100), mf, Zero, Zero, Zero, One, One) : mf \in {Zero, Exact(-2)} }
    \cup { Args(Exact(100), mf, One, Exact(100), Exact(100), Half, Lit(3, 10)) :
             mf \in {Zero, Exact(-2)} }
    \cup { Args(Exact(100), Zero, Exact(100), Zero, Zero, Zero, Zero) }

TwinInit == (\E a \in TwinArgs : New(a)) /\ Unused

\* Constructor arguments that differ from a at most in taker_fee,
\* slippage_bps, spread_bps, fill_ratio and trade_fraction.
Twins(a) ==
    { b \in TwinArgs :
        b.initial_balance = a.initial_balance /\ b.maker_fee = a.maker_fee }

\* The first Backtest has returned from run: Backtest(**b) is constructed
\* and its run is called with the frame of the first and a GridStrategy
\* made with the arguments of the first one's; earlier keeps what the
\* first returned.
TwinRunGrid ==
    /\ pc = "done"
    /\ earlier = None
    /\ IsGrid(strategy)
    /\ \E b \in Twins(given) \ {given} :
          /\ given' = b
          /\ initial_balance' = b.initial_balance
          /\ maker_fee' = FDiv(b.maker_fee, Exact(100))
          /\ taker_fee' = FDiv(b.taker_fee, Exact(100))
          /\ slippage_rate' = FDiv(b.slippage_bps, Exact(10000))
          /\ spread_rate' = FDiv(b.spread_bps, Exact(10000))
          /\ fill_ratio' = Clamp01(b.fill_ratio)
          /\ trade_fraction' = Clamp01(b.trade_fraction)
          /\ balance' = b.initial_balance
    /\ position_amt' = Zero
    /\ avg_entry_price' = Zero
    /\ trade_log' = <<>>
    /\ portfolio_values' = <<>>
    /\ sl_pct' = None /\ tp_pct' = None /\ trailing_pct' = None
    /\ i' = 0
    /\ executed_orders' = <<>>
    /\ strategy' = Setup(Fresh(strategy), strategy.ema_index)
    /\ called' = {"setup"}
    /\ pc' = IF n = 0 THEN "done" ELSE "run_grid"
    /\ earlier' = Returned(strategy)
    /\ UNCHANGED <<n, row, highest_price_since_entry, df, outside>>

TwinNext == FirstRunGrid \/ RecordedGridBar \/ TwinRunGrid \/ ReplayGridBar

TwinSpec == TwinInit /\ [][TwinNext]_vars

\* The order an entry of the log of a grid run records.
OrderOf(e) ==
    Order(IF e.type = "GRID_BUY" THEN "BUY" ELSE "SELL", e.price, e.amount)

\* C34: a grid run does not depend on slippage_rate, spread_rate,
\* fill_ratio, trade_fraction or taker_fee: the second of two Backtests
\* that differ only in those, run over the same rows with a GridStrategy
\* made alike, has after every row the trade log and the portfolio values
\* the first had after as many rows, and returns what the first returned;
\* every GRID_BUY and GRID_SELL is logged at the price of a level of the
\* ladder and for amount_per_grid, and the entries of a row are orders
\* check_execution returned for that row, price and amount unchanged.
C34_GridIgnoresSignalCosts ==
    /\ (earlier # None /\ pc \in {"run_grid", "done"} =>
            /\ SameAsEarlier
            /\ (pc = "done" =>
                    /\ trade_log = earlier.trade_log
                    /\ portfolio_values = earlier.portfolio_values))
    /\ (IsGrid(strategy) /\ pc \in {"run_grid", "done"} =>
            /\ \A k \in 1..Len(trade_log) :
                  /\ trade_log[k].type \in GridTypes
                  /\ \E g \in 1..Len(strategy.grids) :
                        trade_log[k].price = strategy.grids[g]
                  /\ trade_log[k].amount = strategy.amount_per_grid
            /\ \A k \in LoggedOnLastRow :
                  \E j \in 1..Len(executed_orders) :
                      executed_orders[j] = OrderOf(trade_log[k]))

\* The second Backtest, whose slippage, spread, taker fee, fill_ratio and
\* trade_fraction all differ from the first one's, has returned from a
\* run of two rows in which it bought and sold.
C34_Witness ==
    /\ earlier # None
    /\ pc = "done"
    /\ n = 2
    /\ FGt(slippage_rate, Zero) /\ FGt(spread_rate, Zero) /\ FGt(taker_fee, Zero)
    /\ FLt(fill_ratio, One) /\ FLt(trade_fraction, One)
    /\ \E a, b \in 1..Len(trade_log) :
          trade_log[a].type = "GRID_BUY" /\ trade_log[b].type = "GRID_SELL"
    /\ trade_log = earlier.trade_log
    /\ Last(portfolio_values) # initial_balance

\* ------------------------------------------------------------------
\* A LiveTrader in test mode, used either through execute_order alone or
\* through the loop of run alone
\* ------------------------------------------------------------------
\* Calls of execute_order made on one LiveTrader.
MaxOrders == 6

\* Passes of the loop of run made on one LiveTrader.
MaxPasses == 3

\* Order amounts: 1.0, and an amount whose multiples are not all floats.
PaperAmounts == {One, Lit(255, 256)}

PaperArgs ==
    { [LiveArg(o, TRUE, c) EXCEPT !.amount = a] :
        o \in LiveOverlays, c \in LiveCosts, a \in PaperAmounts }

PaperInit ==
    /\ DefaultBacktest
    /\ drawdown = None
    /\ \E a \in PaperArgs : trader = NewLiveTrader(a)
    /\ settings = None

\* Signals tables of two rows; the last row is still forming.
LoopTables ==
    { [has_signal |-> TRUE, rows |-> <<s, Zero>>] : s \in LiveSignals }

\* execute_order("buy", p) or execute_order("sell", p) on a LiveTrader on
\* which nothing else has been called.
PaperOrder ==
    /\ trader.steps < MaxOrders
    /\ trader.steps = 0 \/ trader.last.op = "execute_order"
    /\ \E side \in {"buy", "sell"}, price \in {Lo} :
          LET res == ExecuteOrder(trader, side, price, price, "ok")
          IN  trader' = [res.trader EXCEPT
                            !.steps = @ + 1,
                            !.last = [NoCall EXCEPT !.op = "execute_order",
                                                    !.side = side,
                                                    !.price = price,
                                                    !.returned = res.returned]]
    /\ UNCHANGED <<backtest, drawdown, settings>>

\* One pass of the loop of run on a LiveTrader on which nothing but run
\* has been called.
PaperPass ==
    /\ trader.steps < MaxPasses
    /\ trader.steps = 0 \/ trader.last.op = "run"
    /\ \E current_price \in LivePrices :
          PassOn(current_price, current_price, "ok", LoopTables)
    /\ UNCHANGED <<backtest, drawdown, settings>>

PaperNext == PaperOrder \/ PaperPass

PaperSpec == PaperInit /\ [][PaperNext]_vars

\* C35: in test mode, from virtual_btc = 0 and with a fixed positive
\* amount, virtual_btc >= 0 and virtual_balance >= 0 after every sequence
\* of execute_order("buy") and execute_order("sell"); and after every pass
\* of the loop of run a position is recorded exactly when virtual_btc is
\* amount.
C35_PaperHoldingsNonNegative ==
    (trader # None /\ trader.test_mode) =>
        /\ FGe(trader.virtual_btc, Zero)
        /\ FGe(trader.virtual_balance, Zero)
        /\ (trader.last.op = "run" =>
                (trader.position # None <=> trader.virtual_btc = trader.amount))

\* ------------------------------------------------------------------
\* The position record and the sells that did not execute
\* ------------------------------------------------------------------
\* A pass of the loop of run that starts with a position recorded.
PassWithPosition == LiveStep("run") /\ trader.position # None

\* The pass called execute_order("sell") and the call returned None.
SellNotExecuted ==
    trader'.last.executed = <<"sell">> /\ trader'.last.returned = None

\* C36: a pass of the trading loop sets the position to None only after
\* an execute_order("sell") of that pass that returned a fill; when the
\* call returns None (the order was skipped, or the exchange call raised
\* in live mode) the position record is kept, in check_risk_management as
\* in the exit on a signal; a pass calls execute_order("sell") at most
\* once.
C36_PositionKeptUnlessSold ==
    [][PassWithPosition =>
        /\ (trader'.position = None =>
                /\ trader'.last.executed = <<"sell">>
                /\ trader'.last.returned # None)
        /\ (SellNotExecuted => trader'.position = trader.position)
        /\ Len(trader'.last.executed) <= 1]_vars
=============================================================================
